---- MODULE Spec2Model ----
(***************************************************************************)
(* Covenant: the indentation-sensitive lexer (covenant/lexer/lexer.py),     *)
(* the recursive-descent parser (covenant/parser/parser.py) and the intent *)
(* verification engine (covenant/verify), modelled as one pipeline         *)
(*     source text -> Lexer.tokenize -> Parser.parse                       *)
(*                 -> verify_program, fingerprint_contract,                *)
(*                    compute_intent_hash, verify_against.                 *)
(* Source text is a sequence of one-character strings; positions are       *)
(* 0-based as in the code, so the character at position p is source[p+1].  *)
(***************************************************************************)
EXTENDS Integers, Sequences, FiniteSets, TLC

VARIABLES
  source,        \* Lexer.source, as a sequence of characters
  pos,           \* Lexer.pos
  line,          \* Lexer.line
  column,        \* Lexer.column
  tokens,        \* Lexer.tokens (and, once returned, Parser.tokens)
  indent_stack,  \* Lexer.indent_stack
  ppos,          \* Parser.pos
  program,       \* the locals of Parser.parse: header, contracts, type_defs, shared_decls
  phase,         \* where the pipeline is
  error,         \* the exception that ended the pipeline, if any
  results,       \* the findings returned by verify_program
  fingerprints,  \* fingerprint_contract(contract) of each contract, in order
  hashes,        \* compute_intent_hash(contract, ...) of each contract, in order
  comparison     \* the IntentHashComparison returned by verify_against

\* the variables of the intent verification engine
engine == <<results, fingerprints, hashes, comparison>>

vars ==
  <<source, pos, line, column, tokens, indent_stack, ppos, program, phase, error,
    results, fingerprints, hashes, comparison>>

-----------------------------------------------------------------------------
(* Bounds of the model *)

\* longest source drawn character by character
MaxLen == 4
\* most lines of a source drawn line by line
MaxLines == 4
\* widest leading run of spaces of such a line
MaxIndent == 4
\* most binary operators of a drawn expression
MaxOps == 2

-----------------------------------------------------------------------------
(* Characters *)

INDENT_WIDTH == 2

Digits == {"0", "1", "2", "3", "4", "5", "6", "7", "8", "9"}

Letters == {"a", "b", "c", "d", "e", "f", "g", "h", "i", "j", "k", "l", "m",
            "n", "o", "p", "q", "r", "s", "t", "u", "v", "w", "x", "y", "z",
            "A", "B", "C", "T", "X"}

IsDigit(ch) == ch \in Digits

IsAlpha(ch) == ch \in Letters

IsAlnum(ch) == IsAlpha(ch) \/ IsDigit(ch)

\* what _peek_ahead returns past the end of the source
NoChar == "None"

FileName == "<unknown>"

NoErr == [kind |-> "none"]

LexerError(message, ln, col) ==
  [kind |-> "LexerError", message |-> message, line |-> ln, column |-> col,
   file |-> FileName]

\* source[self.pos] with self.pos past the end
IndexError == [kind |-> "IndexError"]

Token(type, value, ln, col) ==
  [type |-> type, value |-> value, line |-> ln, column |-> col, file |-> FileName]

KEYWORDS(word) ==
  IF word = <<"i","n","t","e","n","t">> THEN "INTENT" ELSE
  IF word = <<"s","c","o","p","e">> THEN "SCOPE" ELSE
  IF word = <<"r","i","s","k">> THEN "RISK" ELSE
  IF word = <<"r","e","q","u","i","r","e","s">> THEN "REQUIRES" ELSE
  IF word = <<"c","o","n","t","r","a","c","t">> THEN "CONTRACT" ELSE
  IF word = <<"p","r","e","c","o","n","d","i","t","i","o","n">> THEN "PRECONDITION" ELSE
  IF word = <<"p","o","s","t","c","o","n","d","i","t","i","o","n">> THEN "POSTCONDITION" ELSE
  IF word = <<"e","f","f","e","c","t","s">> THEN "EFFECTS" ELSE
  IF word = <<"b","o","d","y">> THEN "BODY" ELSE
  IF word = <<"o","n","_","f","a","i","l","u","r","e">> THEN "ON_FAILURE" ELSE
  IF word = <<"m","o","d","i","f","i","e","s">> THEN "MODIFIES" ELSE
  IF word = <<"r","e","a","d","s">> THEN "READS" ELSE
  IF word = <<"e","m","i","t","s">> THEN "EMITS" ELSE
  IF word = <<"t","o","u","c","h","e","s","_","n","o","t","h","i","n","g","_","e","l","s","e">> THEN "TOUCHES_NOTHING_ELSE" ELSE
  IF word = <<"r","e","t","u","r","n">> THEN "RETURN" ELSE
  IF word = <<"e","m","i","t">> THEN "EMIT" ELSE
  IF word = <<"i","f">> THEN "IF" ELSE
  IF word = <<"e","l","s","e">> THEN "ELSE" ELSE
  IF word = <<"f","o","r">> THEN "FOR" ELSE
  IF word = <<"i","n">> THEN "IN" ELSE
  IF word = <<"w","h","i","l","e">> THEN "WHILE" ELSE
  IF word = <<"a","n","d">> THEN "AND" ELSE
  IF word = <<"o","r">> THEN "OR" ELSE
  IF word = <<"n","o","t">> THEN "NOT" ELSE
  IF word = <<"h","a","s">> THEN "HAS" ELSE
  IF word = <<"t","y","p","e">> THEN "TYPE" ELSE
  IF word = <<"f","i","e","l","d","s">> THEN "FIELDS" ELSE
  IF word = <<"f","l","o","w","_","c","o","n","s","t","r","a","i","n","t","s">> THEN "FLOW_CONSTRAINTS" ELSE
  IF word = <<"n","e","v","e","r","_","f","l","o","w","s","_","t","o">> THEN "NEVER_FLOWS_TO" ELSE
  IF word = <<"r","e","q","u","i","r","e","s","_","c","o","n","t","e","x","t">> THEN "REQUIRES_CONTEXT" ELSE
  IF word = <<"s","h","a","r","e","d">> THEN "SHARED" ELSE
  IF word = <<"a","c","c","e","s","s">> THEN "ACCESS" ELSE
  IF word = <<"i","s","o","l","a","t","i","o","n">> THEN "ISOLATION" ELSE
  IF word = <<"a","u","d","i","t">> THEN "AUDIT" ELSE
  IF word = <<"p","e","r","m","i","s","s","i","o","n","s">> THEN "PERMISSIONS" ELSE
  IF word = <<"g","r","a","n","t","s">> THEN "GRANTS" ELSE
  IF word = <<"d","e","n","i","e","s">> THEN "DENIES" ELSE
  IF word = <<"e","s","c","a","l","a","t","i","o","n">> THEN "ESCALATION" ELSE
  IF word = <<"l","o","w">> THEN "LOW" ELSE
  IF word = <<"m","e","d","i","u","m">> THEN "MEDIUM" ELSE
  IF word = <<"h","i","g","h">> THEN "HIGH" ELSE
  IF word = <<"c","r","i","t","i","c","a","l">> THEN "CRITICAL" ELSE
  IF word = <<"o","l","d">> THEN "OLD" ELSE
  IF word = <<"t","r","u","e">> THEN "TRUE" ELSE
  IF word = <<"f","a","l","s","e">> THEN "FALSE" ELSE
  IF word = <<"s","h","o","w">> THEN "SHOW" ELSE
  IF word = <<"a","l","l">> THEN "ALL" ELSE
  IF word = <<"w","h","e","r","e">> THEN "WHERE" ELSE
  IF word = <<"s","i","n","c","e">> THEN "SINCE" ELSE
  "IDENTIFIER"

-----------------------------------------------------------------------------
(* Lexer helpers.  A cursor c is the triple (pos, line, column) of the      *)
(* lexer object.                                                            *)

AtEnd(c) == c.pos >= Len(source)

Peek(c) == source[c.pos + 1]

PeekAhead(c, offset) ==
  IF c.pos + offset >= Len(source) THEN NoChar ELSE source[c.pos + offset + 1]

Advance(c) ==
  IF source[c.pos + 1] = "\n"
  THEN [pos |-> c.pos + 1, line |-> c.line + 1, column |-> 1]
  ELSE [pos |-> c.pos + 1, line |-> c.line, column |-> c.column + 1]

MakeToken(type, value, c) == Token(type, value, c.line, c.column)

RECURSIVE SkipSpaces(_)
SkipSpaces(c) ==
  IF ~AtEnd(c) /\ Peek(c) = " " THEN SkipSpaces(Advance(c)) ELSE c

RECURSIVE SkipComment(_)
SkipComment(c) ==
  IF ~AtEnd(c) /\ Peek(c) # "\n" THEN SkipComment(Advance(c)) ELSE c

\* the cursor is at the two dashes that open a comment
AtCommentWrongOffset(c) == Peek(c) = "-" /\ PeekAhead(c, 2) = "-"

AtComment(c) == Peek(c) = "-" /\ PeekAhead(c, 1) = "-"

\* a scan step's result: the cursor, the token list, and the exception raised
LexOk(c, toks) == [err |-> NoErr, c |-> c, tokens |-> toks]

LexFail(e, c, toks) == [err |-> e, c |-> c, tokens |-> toks]

escape_map(escaped) ==
  IF escaped = "n" THEN "\n"
  ELSE IF escaped = "t" THEN "\t"
  ELSE escaped

ScanString(c, toks) ==
  LET \* the while loop of _scan_string and what follows it
      RECURSIVE StringLoop(_, _, _, _)
      StringLoop(cur, chars, start, out) ==
        IF ~AtEnd(cur) /\ Peek(cur) # "\""
        THEN IF Peek(cur) = "\n"
             THEN LexFail(LexerError("Unterminated string literal", start.line, start.column),
                          cur, out)
             ELSE IF Peek(cur) = "\\"
                  THEN LET c1 == Advance(cur) IN
                       IF AtEnd(c1)
                       THEN LexFail(IndexError, c1, out)
                       ELSE StringLoop(Advance(c1), Append(chars, escape_map(Peek(c1))),
                                       start, out)
                  ELSE StringLoop(Advance(cur), Append(chars, Peek(cur)), start, out)
        ELSE IF AtEnd(cur)
             THEN LexFail(LexerError("Unterminated string literal", start.line, start.column),
                          cur, out)
             ELSE LexOk(Advance(cur),
                        Append(out, Token("STRING", chars, start.line, start.column)))
  IN
  StringLoop(Advance(c), <<>>, c, toks)

ScanNumber(c, toks) ==
  LET RECURSIVE NumberLoop(_, _)
      NumberLoop(cur, num_chars) ==
        IF ~AtEnd(cur) /\ (IsDigit(Peek(cur)) \/ Peek(cur) = ".")
        THEN NumberLoop(Advance(cur), Append(num_chars, Peek(cur)))
        ELSE [c |-> cur, chars |-> num_chars]
  IN
  LET r == NumberLoop(c, <<>>)
      value == r.chars
      token_type == IF \E i \in 1..Len(value) : value[i] = "." THEN "FLOAT" ELSE "INTEGER"
  IN LexOk(r.c, Append(toks, Token(token_type, value, r.c.line, c.column)))

ScanIdentifier(c, toks) ==
  LET RECURSIVE IdentifierLoop(_, _)
      IdentifierLoop(cur, chars) ==
        IF ~AtEnd(cur) /\ (IsAlnum(Peek(cur)) \/ Peek(cur) = "_")
        THEN IdentifierLoop(Advance(cur), Append(chars, Peek(cur)))
        ELSE [c |-> cur, chars |-> chars]
  IN
  LET r == IdentifierLoop(c, <<>>)
      word == r.chars
  IN LexOk(r.c, Append(toks, Token(KEYWORDS(word), word, r.c.line, c.column)))

single_char_tokens(ch) ==
  CASE ch = "(" -> "LPAREN"
    [] ch = ")" -> "RPAREN"
    [] ch = "[" -> "LBRACKET"
    [] ch = "]" -> "RBRACKET"
    [] ch = "," -> "COMMA"
    [] ch = ":" -> "COLON"
    [] ch = "." -> "DOT"
    [] ch = "+" -> "PLUS"
    [] ch = "-" -> "MINUS"
    [] ch = "*" -> "STAR"
    [] ch = "/" -> "SLASH"
    [] ch = "<" -> "LESS_THAN"
    [] ch = ">" -> "GREATER_THAN"
    [] ch = "=" -> "ASSIGN"
    [] OTHER -> "none"

TwoChar(c, toks, type, value) ==
  LexOk(Advance(Advance(c)), Append(toks, MakeToken(type, value, c)))

ScanToken(c, toks) ==
  LET ch == Peek(c) IN
  IF ch = "\"" THEN ScanString(c, toks)
  ELSE IF IsDigit(ch) THEN ScanNumber(c, toks)
  ELSE IF ch = "-" /\ PeekAhead(c, 1) = ">" THEN TwoChar(c, toks, "ARROW", <<"-", ">">>)
  ELSE IF ch = "=" /\ PeekAhead(c, 1) = "=" THEN TwoChar(c, toks, "EQUALS", <<"=", "=">>)
  ELSE IF ch = "!" /\ PeekAhead(c, 1) = "=" THEN TwoChar(c, toks, "NOT_EQUALS", <<"!", "=">>)
  ELSE IF ch = "<" /\ PeekAhead(c, 1) = "=" THEN TwoChar(c, toks, "LESS_EQUAL", <<"<", "=">>)
  ELSE IF ch = ">" /\ PeekAhead(c, 1) = "=" THEN TwoChar(c, toks, "GREATER_EQUAL", <<">", "=">>)
  ELSE IF single_char_tokens(ch) # "none"
       THEN LexOk(Advance(c), Append(toks, MakeToken(single_char_tokens(ch), <<ch>>, c)))
  ELSE IF IsAlpha(ch) \/ ch = "_" THEN ScanIdentifier(c, toks)
  ELSE LexFail(LexerError("Unexpected character", c.line, c.column), c, toks)

\* the token loop of _scan_line
RECURSIVE ScanTokens(_, _)
ScanTokens(c, toks) ==
  IF ~AtEnd(c) /\ Peek(c) # "\n"
  THEN LET c1 == SkipSpaces(c) IN
       IF AtEnd(c1) \/ Peek(c1) = "\n" THEN LexOk(c1, toks)
       ELSE IF AtComment(c1) THEN LexOk(SkipComment(c1), toks)
       ELSE LET r == ScanToken(c1, toks) IN
            IF r.err.kind # "none" THEN r ELSE ScanTokens(r.c, r.tokens)
  ELSE LexOk(c, toks)

\* the leading spaces of a line
RECURSIVE MeasureIndent(_, _)
MeasureIndent(c, indent) ==
  IF ~AtEnd(c) /\ Peek(c) = " "
  THEN MeasureIndent(Advance(c), indent + 1)
  ELSE [c |-> c, indent |-> indent]

Top(stack) == stack[Len(stack)]

Pop(stack) == SubSeq(stack, 1, Len(stack) - 1)

PopDedentsOnce(c, indent, toks, stack) ==
  IF Top(stack) > indent
  THEN [tokens |-> Append(toks, MakeToken("DEDENT", <<>>, c)), indent_stack |-> Pop(stack)]
  ELSE [tokens |-> toks, indent_stack |-> stack]

\* while self.indent_stack[-1] > indent: pop, emit DEDENT
RECURSIVE PopDedents(_, _, _, _)
PopDedents(c, indent, toks, stack) ==
  IF Top(stack) > indent
  THEN PopDedents(c, indent, Append(toks, MakeToken("DEDENT", <<>>, c)), Pop(stack))
  ELSE [tokens |-> toks, indent_stack |-> stack]

\* an indentation step that opens one level for each INDENT_WIDTH spaces of
\* an increase
EmitIndentationPerWidth(c, indent, toks, stack) ==
  LET current == Top(stack)
      RECURSIVE Open(_, _, _)
      Open(level, ts, st) ==
        IF level > indent THEN [err |-> NoErr, tokens |-> ts, indent_stack |-> st]
        ELSE Open(level + INDENT_WIDTH, Append(ts, MakeToken("INDENT", <<>>, c)),
                  Append(st, level))
  IN
  IF indent > current
  THEN Open(current + INDENT_WIDTH, toks, stack)
  ELSE IF indent < current
       THEN LET p == PopDedents(c, indent, toks, stack) IN
            [err |-> IF Top(p.indent_stack) # indent
                     THEN LexerError("Dedent does not match any outer indentation level",
                                     c.line, c.column)
                     ELSE NoErr,
             tokens |-> p.tokens, indent_stack |-> p.indent_stack]
       ELSE [err |-> NoErr, tokens |-> toks, indent_stack |-> stack]

\* "Emit INDENT / DEDENT tokens" of _scan_line
EmitIndentation(c, indent, toks, stack) ==
  LET current == Top(stack) IN
  IF indent > current
  THEN [err |-> NoErr, tokens |-> Append(toks, MakeToken("INDENT", <<>>, c)),
        indent_stack |-> Append(stack, indent)]
  ELSE IF indent < current
       THEN LET p == PopDedents(c, indent, toks, stack) IN
            [err |-> IF Top(p.indent_stack) # indent
                     THEN LexerError("Dedent does not match any outer indentation level",
                                     c.line, c.column)
                     ELSE NoErr,
             tokens |-> p.tokens, indent_stack |-> p.indent_stack]
       ELSE [err |-> NoErr, tokens |-> toks, indent_stack |-> stack]

ConsumeNewlineSilently(c, toks) ==
  IF ~AtEnd(c) /\ Peek(c) = "\n"
  THEN [c |-> Advance(c), tokens |-> toks]
  ELSE [c |-> c, tokens |-> toks]

\* "Consume newline" of _scan_line: the NEWLINE token, then the character
ConsumeNewline(c, toks) ==
  IF ~AtEnd(c) /\ Peek(c) = "\n"
  THEN [c |-> Advance(c), tokens |-> Append(toks, MakeToken("NEWLINE", <<"\n">>, c))]
  ELSE [c |-> c, tokens |-> toks]

LineResult(e, c, toks, stack) ==
  [err |-> e, c |-> c, tokens |-> toks, indent_stack |-> stack]

\* Lexer._scan_line from cursor c
ScanLineFrom(c, toks, stack) ==
  LET m == MeasureIndent(c, 0)
      c1 == m.c
      indent == m.indent
  IN
  IF AtEnd(c1) \/ Peek(c1) = "\n"
  THEN LineResult(NoErr, IF ~AtEnd(c1) THEN Advance(c1) ELSE c1, toks, stack)
  ELSE IF AtComment(c1)
  THEN LET c2 == SkipComment(c1) IN
       LineResult(NoErr, IF ~AtEnd(c2) /\ Peek(c2) = "\n" THEN Advance(c2) ELSE c2,
                  toks, stack)
  ELSE IF Peek(c1) = "\t"
  THEN LineResult(LexerError("Tabs are not allowed", c1.line, c1.column), c1, toks, stack)
  ELSE IF indent % INDENT_WIDTH # 0
  THEN LineResult(LexerError("Indentation must be a multiple of 2 spaces",
                             c1.line, c1.column), c1, toks, stack)
  ELSE LET ind == EmitIndentation(c1, indent, toks, stack) IN
       IF ind.err.kind # "none"
       THEN LineResult(ind.err, c1, ind.tokens, ind.indent_stack)
       ELSE LET r == ScanTokens(c1, ind.tokens) IN
            IF r.err.kind # "none"
            THEN LineResult(r.err, r.c, r.tokens, ind.indent_stack)
            ELSE LET n == ConsumeNewline(r.c, r.tokens) IN
                 LineResult(NoErr, n.c, n.tokens, ind.indent_stack)

PopNone(c, toks, stack) == [tokens |-> toks, indent_stack |-> stack]

\* "Emit remaining DEDENTs at EOF"
RECURSIVE PopAll(_, _, _)
PopAll(c, toks, stack) ==
  IF Len(stack) > 1
  THEN PopAll(c, Append(toks, MakeToken("DEDENT", <<>>, c)), Pop(stack))
  ELSE [tokens |-> toks, indent_stack |-> stack]

-----------------------------------------------------------------------------
(* The inputs: bounded sets of source texts *)

LexAlphabet == {" ", "\n", "\t", "\"", "\\", "-", ".", "1", "a", "@"}

CharSources == UNION {[1..n -> LexAlphabet] : n \in 0..MaxLen}

Lines ==
  LET RECURSIVE Spaces(_)
      Spaces(n) == IF n = 0 THEN <<>> ELSE <<" ">> \o Spaces(n - 1)
      LineContents == {<<"a">>, <<>>, <<"-", "-">>}
  IN
  {Spaces(n) \o body \o <<"\n">> : n \in 0..MaxIndent, body \in LineContents}

RECURSIVE Concat(_)
Concat(ls) == IF ls = <<>> THEN <<>> ELSE Head(ls) \o Concat(Tail(ls))

\* a first line "a" at the margin, then up to MaxLines - 1 drawn lines
LineSources ==
  {<<"a", "\n">> \o Concat(ls) : ls \in UNION {[1..n -> Lines] : n \in 0..(MaxLines - 1)}}

Sources == CharSources \cup LineSources

-----------------------------------------------------------------------------
(* The pipeline *)

Cursor == [pos |-> pos, line |-> line, column |-> column]

\* the locals of Parser.parse, which make the Program it returns
EmptyProgram == [loc |->
       [kind |-> "None"], header |-> [kind |-> "None"], contracts |-> <<>>,
                 type_defs |-> <<>>, shared_decls |-> <<>>]

Init ==
  /\ source \in Sources
  /\ pos = 0
  /\ line = 1
  /\ column = 1
  /\ tokens = <<>>
  /\ indent_stack = <<0>>
  /\ ppos = 0
  /\ program = EmptyProgram
  /\ phase = "tokenize"
  /\ error = NoErr
  /\ results = <<>>
  /\ fingerprints = <<>>
  /\ hashes = <<>>
  /\ comparison = [kind |-> "None"]

\* one iteration of the loop of Lexer.tokenize: self._scan_line()
ScanLine ==
  /\ phase = "tokenize"
  /\ pos < Len(source)
  /\ LET r == ScanLineFrom(Cursor, tokens, indent_stack) IN
     /\ pos' = r.c.pos
     /\ line' = r.c.line
     /\ column' = r.c.column
     /\ tokens' = r.tokens
     /\ indent_stack' = r.indent_stack
     /\ error' = r.err
     /\ phase' = IF r.err.kind # "none" THEN "lex_failed" ELSE "tokenize"
  /\ UNCHANGED <<source, ppos, program>>
  /\ UNCHANGED engine

\* the end of Lexer.tokenize: the remaining DEDENTs, EOF, return
TokenizeReturn ==
  /\ phase = "tokenize"
  /\ pos >= Len(source)
  /\ LET p == PopAll(Cursor, tokens, indent_stack) IN
     /\ tokens' = Append(p.tokens, MakeToken("EOF", <<>>, Cursor))
     /\ indent_stack' = p.indent_stack
  /\ phase' = "lexed"
  /\ UNCHANGED <<source, pos, line, column, ppos, program, error>>
  /\ UNCHANGED engine

Next == ScanLine \/ TokenizeReturn

Spec == Init /\ [][Next]_vars

-----------------------------------------------------------------------------
(* Parser (covenant/parser/parser.py).  A parse function takes the token    *)
(* index p at which it starts and gives the index at which it stops, the    *)
(* node it built, and the exception it raised, if any.  Names and string    *)
(* values are sequences of characters, as the lexer made them.              *)

None == [kind |-> "None"]

ParseError(message, token) ==
  [kind |-> "ParseError", message |-> message, token |-> token]

\* int() or float() of a token value that is no number
ValueError == [kind |-> "ValueError"]

POk(p, v) == [err |-> NoErr, pos |-> p, val |-> v]

PFail(e, p) == [err |-> e, pos |-> p, val |-> None]

Failed(r) == r.err.kind # "none"

_KEYWORD_TOKEN_TYPES ==
  {"ACCESS", "AUDIT", "GRANTS", "DENIES", "ESCALATION", "ISOLATION", "SCOPE",
   "RISK", "LOW", "MEDIUM", "HIGH", "CRITICAL", "FIELDS", "SHOW", "ALL",
   "WHERE", "SINCE", "READS", "EMITS", "MODIFIES", "SHARED", "TYPE", "REQUIRES",
   "INTENT", "OLD", "BODY", "EFFECTS", "PRECONDITION", "POSTCONDITION",
   "PERMISSIONS"}

Current(p) == IF p >= Len(tokens) THEN tokens[Len(tokens)] ELSE tokens[p + 1]

Check(p, token_type) == Current(p).type = token_type

AtEndTok(p) == Current(p).type = "EOF"

PeekType(p, offset) ==
  IF p + offset >= Len(tokens) THEN "None" ELSE tokens[p + offset + 1].type

Expect(p, token_type) ==
  IF Current(p).type # token_type
  THEN PFail(ParseError("Expected token", Current(p)), p)
  ELSE POk(p + 1, Current(p))

\* _expect on each type of a run of tokens; the value is the last token
RECURSIVE ExpectAll(_, _)
ExpectAll(p, types) ==
  LET r == Expect(p, Head(types)) IN
  IF Failed(r) \/ Len(types) = 1 THEN r ELSE ExpectAll(r.pos, Tail(types))

\* an _expect_identifier_or_keyword that returns the token and leaves the
\* index where it is
ExpectIdentifierOrKeywordStay(p) ==
  IF Current(p).type = "IDENTIFIER" \/ Current(p).type \in _KEYWORD_TOKEN_TYPES
  THEN POk(p, Current(p))
  ELSE PFail(ParseError("Expected identifier", Current(p)), p)

ExpectIdentifierOrKeyword(p) ==
  IF Current(p).type = "IDENTIFIER" \/ Current(p).type \in _KEYWORD_TOKEN_TYPES
  THEN POk(p + 1, Current(p))
  ELSE PFail(ParseError("Expected identifier", Current(p)), p)

RECURSIVE SkipNewlines(_)
SkipNewlines(p) == IF Check(p, "NEWLINE") THEN SkipNewlines(p + 1) ELSE p

Loc(p) ==
  [file |-> Current(p).file, line |-> Current(p).line, column |-> Current(p).column]

(* Utility parsers *)

\* self._parse_<...>(): the method of that name, called at token index p
RECURSIVE Self(_, _)

ParseDottedName(p) ==
  LET RECURSIVE DottedNameLoop(_, _)
      DottedNameLoop(at, name) ==
        IF Check(at, "DOT")
        THEN LET t == ExpectIdentifierOrKeyword(at + 1) IN
             IF Failed(t) THEN t ELSE DottedNameLoop(t.pos, name \o <<".">> \o t.val.value)
        ELSE POk(at, name)
  IN
  LET t == ExpectIdentifierOrKeyword(p) IN
  IF Failed(t) THEN t ELSE DottedNameLoop(t.pos, t.val.value)

ParsePermissionExpr(p) ==
  LET RECURSIVE PermissionLoop(_, _, _)
      PermissionLoop(at, depth, parts) ==
        IF AtEndTok(at) THEN POk(at, parts)
        ELSE LET tok == Current(at) IN
             IF tok.type = "LPAREN" THEN PermissionLoop(at + 1, depth + 1, parts \o tok.value)
             ELSE IF tok.type = "RPAREN"
                  THEN IF depth = 0 THEN POk(at, parts)
                       ELSE PermissionLoop(at + 1, depth - 1, parts \o tok.value)
             ELSE IF tok.type = "COMMA" /\ depth = 0 THEN POk(at, parts)
             ELSE IF tok.type = "RBRACKET" /\ depth = 0 THEN POk(at, parts)
             ELSE PermissionLoop(at + 1, depth, parts \o tok.value)
  IN
  PermissionLoop(p, 0, <<>>)

ParseBracketedList(p, item_parser) ==
  LET \* parser is _parse_dotted_name ("name") or _parse_permission_expr
      ParseItem(parser, at) ==
        IF parser = "permission" THEN Self("_parse_permission_expr", at)
        ELSE Self("_parse_dotted_name", at)
      RECURSIVE BracketedLoop(_, _, _)
      BracketedLoop(at, items, parser) ==
        IF Check(at, "COMMA")
        THEN IF Check(at + 1, "RBRACKET") THEN POk(at + 1, items)
             ELSE LET i == ParseItem(parser, at + 1) IN
                  IF Failed(i) THEN i
                  ELSE BracketedLoop(i.pos, Append(items, i.val), parser)
        ELSE POk(at, items)
  IN
  LET \* the closing bracket after the items
      Close(items) ==
        IF Failed(items) THEN items
        ELSE LET close == Expect(items.pos, "RBRACKET") IN
             IF Failed(close) THEN close ELSE POk(close.pos, items.val)
      open == Expect(p, "LBRACKET")
  IN IF Failed(open) THEN open
     ELSE Close(IF ~Check(open.pos, "RBRACKET")
                THEN LET i == ParseItem(item_parser, open.pos) IN
                     IF Failed(i) THEN i
                     ELSE BracketedLoop(i.pos, <<i.val>>, item_parser)
                ELSE POk(open.pos, <<>>))

(* Type expressions and parameters *)

ParseTypeExpr(p) ==
  LET RECURSIVE AnnotationLoop(_, _)
      AnnotationLoop(at, annotations) ==
        IF Check(at, "COMMA")
        THEN LET a == Expect(at + 1, "IDENTIFIER") IN
             IF Failed(a) THEN a ELSE AnnotationLoop(a.pos, Append(annotations, a.val.value))
        ELSE POk(at, annotations)
  IN
  LET name == Expect(p, "IDENTIFIER") IN
  IF Failed(name) THEN name
  ELSE LET base == [kind |-> "SimpleType", loc |-> Loc(p), name |-> name.val.value] IN
       IF Check(name.pos, "LBRACKET")
       THEN LET first == Expect(name.pos + 1, "IDENTIFIER") IN
            IF Failed(first) THEN first
            ELSE LET rest == AnnotationLoop(first.pos, <<first.val.value>>) IN
                 IF Failed(rest) THEN rest
                 ELSE LET close == Expect(rest.pos, "RBRACKET") IN
                      IF Failed(close) THEN close
                      ELSE POk(close.pos,
                               [kind |-> "AnnotatedType", loc |-> Loc(p), base |-> base,
                                annotations |-> rest.val])
       ELSE POk(name.pos, base)

ParseParam(p) ==
  LET name == Expect(p, "IDENTIFIER") IN
  IF Failed(name) THEN name
  ELSE LET colon == Expect(name.pos, "COLON") IN
       IF Failed(colon) THEN colon
       ELSE LET t == Self("_parse_type_expr", colon.pos) IN
            IF Failed(t) THEN t
            ELSE POk(t.pos, [kind |-> "Param", loc |-> Loc(p), name |-> name.val.value,
                             type_expr |-> t.val])

ParseParamList(p) ==
  LET RECURSIVE ParamLoop(_, _)
      ParamLoop(at, params) ==
        IF Check(at, "COMMA")
        THEN IF Check(at + 1, "RPAREN") THEN POk(at + 1, params)
             ELSE LET q == Self("_parse_param", at + 1) IN
                  IF Failed(q) THEN q ELSE ParamLoop(q.pos, Append(params, q.val))
        ELSE POk(at, params)
  IN
  IF ~Check(p, "RPAREN")
  THEN LET q == Self("_parse_param", p) IN
       IF Failed(q) THEN q ELSE ParamLoop(q.pos, <<q.val>>)
  ELSE POk(p, <<>>)

(* Expressions *)

\* int(tok.value) for a run of decimal digits
RECURSIVE IntOf(_)
IntOf(value) ==
  LET DigitValue(ch) ==
        CASE ch = "0" -> 0 [] ch = "1" -> 1 [] ch = "2" -> 2 [] ch = "3" -> 3 [] ch = "4" -> 4
          [] ch = "5" -> 5 [] ch = "6" -> 6 [] ch = "7" -> 7 [] ch = "8" -> 8 [] ch = "9" -> 9
  IN
  IF value = <<>> THEN 0
  ELSE 10 * IntOf(SubSeq(value, 1, Len(value) - 1)) + DigitValue(value[Len(value)])

\* float(tok.value) accepts digits with exactly one '.', with digits on at
\* least one side of it; the number is its whole part and its fraction digits.
\* A number carries its type: an int n is [int |-> n], a float is
\* [whole |-> w, frac |-> digits].
FloatParses(value) ==
  /\ Cardinality({i \in 1..Len(value) : value[i] = "."}) = 1
  /\ Len(value) >= 2
  /\ \A i \in 1..Len(value) : IsDigit(value[i]) \/ value[i] = "."

FloatOf(value) ==
  LET RECURSIVE StripTrailingZeros(_)
      StripTrailingZeros(digits) ==
        IF digits # <<>> /\ digits[Len(digits)] = "0"
        THEN StripTrailingZeros(SubSeq(digits, 1, Len(digits) - 1))
        ELSE digits
  IN
  LET d == CHOOSE i \in 1..Len(value) : value[i] = "." IN
  [whole |-> IntOf(SubSeq(value, 1, d - 1)),
   frac |-> StripTrailingZeros(SubSeq(value, d + 1, Len(value)))]

BinaryOp(loc, left, op, right) ==
  [kind |-> "BinaryOp", loc |-> loc, left |-> left, op |-> op, right |-> right]

\* kwargs[name] = value on a dict kept as a sequence of its items, in
\* insertion order
DictSet(kwargs, name, value) ==
  IF \E i \in 1..Len(kwargs) : kwargs[i].name = name
  THEN [i \in 1..Len(kwargs) |->
          IF kwargs[i].name = name THEN [name |-> name, value |-> value] ELSE kwargs[i]]
  ELSE Append(kwargs, [name |-> name, value |-> value])

comparison_ops(token_type) ==
  CASE token_type = "EQUALS" -> "=="
    [] token_type = "NOT_EQUALS" -> "!="
    [] token_type = "LESS_THAN" -> "<"
    [] token_type = "LESS_EQUAL" -> "<="
    [] token_type = "GREATER_THAN" -> ">"
    [] token_type = "GREATER_EQUAL" -> ">="
    [] OTHER -> "none"

RECURSIVE OrLoop(_)
RECURSIVE AndLoop(_)
RECURSIVE ComparisonLoop(_)
RECURSIVE AdditiveLoop(_)
RECURSIVE MultiplicativeLoop(_)
RECURSIVE PostfixLoop(_)
RECURSIVE ListLoop(_, _)
RECURSIVE ArgumentLoop(_, _, _)
RECURSIVE ParseSingleArgument(_, _, _)

ParseOrExpr(p) ==
  LET left == Self("_parse_and_expr", p) IN
  IF Failed(left) THEN left ELSE OrLoop(left)

ParseExpression(p) == Self("_parse_or_expr", p)

OrLoop(left) ==
  IF Check(left.pos, "OR")
  THEN LET right == Self("_parse_and_expr", left.pos + 1) IN
       IF Failed(right) THEN right
       ELSE OrLoop(POk(right.pos, BinaryOp(left.val.loc, left.val, "or", right.val)))
  ELSE left

ParseAndExpr(p) ==
  LET left == Self("_parse_not_expr", p) IN
  IF Failed(left) THEN left ELSE AndLoop(left)

AndLoop(left) ==
  IF Check(left.pos, "AND")
  THEN LET right == Self("_parse_not_expr", left.pos + 1) IN
       IF Failed(right) THEN right
       ELSE AndLoop(POk(right.pos, BinaryOp(left.val.loc, left.val, "and", right.val)))
  ELSE left

ParseNotExpr(p) ==
  IF Check(p, "NOT")
  THEN LET operand == Self("_parse_not_expr", p + 1) IN
       IF Failed(operand) THEN operand
       ELSE POk(operand.pos,
              [kind |-> "UnaryOp", loc |-> Loc(p), op |-> "not",
               operand |-> operand.val])
  ELSE Self("_parse_comparison", p)

ParseComparison(p) ==
  LET left == Self("_parse_has_expr", p) IN
  IF Failed(left) THEN left ELSE ComparisonLoop(left)

ComparisonLoop(left) ==
  IF comparison_ops(Current(left.pos).type) # "none"
  THEN LET op == comparison_ops(Current(left.pos).type)
           right == Self("_parse_has_expr", left.pos + 1)
       IN IF Failed(right) THEN right
          ELSE ComparisonLoop(POk(right.pos, BinaryOp(left.val.loc, left.val, op, right.val)))
  ELSE left

ParseHasExpr(p) ==
  LET left == Self("_parse_additive", p) IN
  IF Failed(left) THEN left
  ELSE IF Check(left.pos, "HAS")
       THEN LET right == Self("_parse_additive", left.pos + 1) IN
            IF Failed(right) THEN right
            ELSE POk(right.pos,
                   [kind |-> "HasExpr", loc |-> left.val.loc, subject |-> left.val,
                    capability |-> right.val])
       ELSE left

ParseAdditive(p) ==
  LET left == Self("_parse_multiplicative", p) IN
  IF Failed(left) THEN left ELSE AdditiveLoop(left)

AdditiveLoop(left) ==
  IF Check(left.pos, "PLUS") \/ Check(left.pos, "MINUS")
  THEN LET op == IF Current(left.pos).type = "PLUS" THEN "+" ELSE "-"
           right == Self("_parse_multiplicative", left.pos + 1)
       IN IF Failed(right) THEN right
          ELSE AdditiveLoop(POk(right.pos, BinaryOp(left.val.loc, left.val, op, right.val)))
  ELSE left

ParseMultiplicative(p) ==
  LET left == Self("_parse_unary", p) IN
  IF Failed(left) THEN left ELSE MultiplicativeLoop(left)

\* MultiplicativeLoop with a right operand read one level too low
RECURSIVE MultiplicativeLoopLoose(_)
MultiplicativeLoopLoose(left) ==
  IF Check(left.pos, "STAR") \/ Check(left.pos, "SLASH")
  THEN LET op == IF Current(left.pos).type = "STAR" THEN "*" ELSE "/"
           right == Self("_parse_additive", left.pos + 1)
       IN IF Failed(right) THEN right
          ELSE MultiplicativeLoopLoose(
                 POk(right.pos, BinaryOp(left.val.loc, left.val, op, right.val)))
  ELSE left

MultiplicativeLoop(left) ==
  IF Check(left.pos, "STAR") \/ Check(left.pos, "SLASH")
  THEN LET op == IF Current(left.pos).type = "STAR" THEN "*" ELSE "/"
           right == Self("_parse_unary", left.pos + 1)
       IN IF Failed(right) THEN right
          ELSE MultiplicativeLoop(
                 POk(right.pos, BinaryOp(left.val.loc, left.val, op, right.val)))
  ELSE left

ParseUnary(p) ==
  IF Check(p, "MINUS")
  THEN LET operand == Self("_parse_unary", p + 1) IN
       IF Failed(operand) THEN operand
       ELSE POk(operand.pos,
              [kind |-> "UnaryOp", loc |-> Loc(p), op |-> "-", operand |-> operand.val])
  ELSE Self("_parse_postfix", p)

ParsePostfix(p) ==
  LET expr == Self("_parse_primary", p) IN
  IF Failed(expr) THEN expr ELSE PostfixLoop(expr)

\* the closing parenthesis of a call, then the call node
CloseCall(args, node) ==
  LET close == Expect(args.pos, "RPAREN") IN
  IF Failed(close) THEN close ELSE POk(close.pos, node)

PostfixLoop(expr) ==
  IF Check(expr.pos, "DOT")
  THEN LET field == ExpectIdentifierOrKeyword(expr.pos + 1) IN
       IF Failed(field) THEN field
       ELSE IF Check(field.pos, "LPAREN")
            THEN LET args == Self("_parse_argument_list", field.pos + 1) IN
                 IF Failed(args) THEN args
                 ELSE LET call == CloseCall(args,
                                           [kind |-> "MethodCall", loc |-> expr.val.loc,
                                            object |-> expr.val,
                                            method |-> field.val.value,
                                            arguments |-> args.val.args,
                                            keyword_args |-> args.val.kwargs])
                      IN IF Failed(call) THEN call ELSE PostfixLoop(call)
            ELSE PostfixLoop(POk(field.pos,
                                        [kind |-> "FieldAccess", loc |-> expr.val.loc,
                                         object |-> expr.val,
                                         field_name |-> field.val.value]))
  ELSE IF Check(expr.pos, "LPAREN")
       THEN LET args == Self("_parse_argument_list", expr.pos + 1) IN
            IF Failed(args) THEN args
            ELSE LET call == CloseCall(args,
                                      [kind |-> "FunctionCall", loc |-> expr.val.loc,
                                       function |-> expr.val,
                                       arguments |-> args.val.args,
                                       keyword_args |-> args.val.kwargs])
                 IN IF Failed(call) THEN call ELSE PostfixLoop(call)
       ELSE expr

ParsePrimary(p) ==
  LET loc == Loc(p)
      tok == Current(p)
  IN
  IF tok.type = "OLD"
  THEN LET open == Expect(p + 1, "LPAREN") IN
       IF Failed(open) THEN open
       ELSE LET inner == Self("_parse_expression", open.pos) IN
            IF Failed(inner) THEN inner
            ELSE LET close == Expect(inner.pos, "RPAREN") IN
                 IF Failed(close) THEN close ELSE POk(close.pos,
                        [kind |-> "OldExpr", loc |-> loc, inner |-> inner.val])
  ELSE IF tok.type = "STRING" THEN POk(p + 1,
         [kind |-> "StringLiteral", loc |-> loc, value |-> tok.value])
  ELSE IF tok.type = "INTEGER" THEN POk(p + 1,
         [kind |-> "NumberLiteral", loc |-> loc, value |-> [int |-> IntOf(tok.value)]])
  ELSE IF tok.type = "FLOAT"
       THEN IF FloatParses(tok.value)
            THEN POk(p + 1,
                   [kind |-> "NumberLiteral", loc |-> loc, value |-> FloatOf(tok.value)])
            ELSE PFail(ValueError, p + 1)
  ELSE IF tok.type = "TRUE" THEN POk(p + 1,
         [kind |-> "BoolLiteral", loc |-> loc, value |-> TRUE])
  ELSE IF tok.type = "FALSE" THEN POk(p + 1,
         [kind |-> "BoolLiteral", loc |-> loc, value |-> FALSE])
  ELSE IF tok.type = "IDENTIFIER" THEN POk(p + 1,
         [kind |-> "Identifier", loc |-> loc, name |-> tok.value])
  ELSE IF tok.type = "LBRACKET" THEN Self("_parse_list_literal", p)
  ELSE IF tok.type = "LPAREN"
       THEN LET expr == Self("_parse_expression", p + 1) IN
            IF Failed(expr) THEN expr
            ELSE LET close == Expect(expr.pos, "RPAREN") IN
                 IF Failed(close) THEN close ELSE POk(close.pos, expr.val)
  ELSE PFail(ParseError("Expected expression", tok), p)

ListLoop(p, elements) ==
  IF Check(p, "COMMA")
  THEN IF Check(p + 1, "RBRACKET") THEN POk(p + 1, elements)
       ELSE LET e == Self("_parse_expression", p + 1) IN
            IF Failed(e) THEN e ELSE ListLoop(e.pos, Append(elements, e.val))
  ELSE POk(p, elements)

ParseListLiteral(p) ==
  LET open == Expect(p, "LBRACKET") IN
  IF Failed(open) THEN open
  ELSE LET elements ==
             IF ~Check(open.pos, "RBRACKET")
             THEN LET e == Self("_parse_expression", open.pos) IN
                  IF Failed(e) THEN e ELSE ListLoop(e.pos, <<e.val>>)
             ELSE POk(open.pos, <<>>)
       IN IF Failed(elements) THEN elements
          ELSE LET close == Expect(elements.pos, "RBRACKET") IN
               IF Failed(close) THEN close
               ELSE POk(close.pos,
                      [kind |-> "ListLiteral", loc |-> Loc(p),
                       elements |-> elements.val])

ParseSingleArgument(p, args, kwargs) ==
  IF /\ Check(p, "IDENTIFIER") \/ Current(p).type \in _KEYWORD_TOKEN_TYPES
     /\ PeekType(p, 1) = "COLON"
  THEN LET value == Self("_parse_expression", p + 2) IN
       IF Failed(value) THEN value
       ELSE POk(value.pos,
                [args |-> args, kwargs |-> DictSet(kwargs, Current(p).value, value.val)])
  ELSE LET e == Self("_parse_expression", p) IN
       IF Failed(e) THEN e
       ELSE POk(e.pos, [args |-> Append(args, e.val), kwargs |-> kwargs])

ArgumentLoop(p, args, kwargs) ==
  IF Check(p, "COMMA")
  THEN IF Check(p + 1, "RPAREN") THEN POk(p + 1, [args |-> args, kwargs |-> kwargs])
       ELSE LET a == ParseSingleArgument(p + 1, args, kwargs) IN
            IF Failed(a) THEN a ELSE ArgumentLoop(a.pos, a.val.args, a.val.kwargs)
  ELSE POk(p, [args |-> args, kwargs |-> kwargs])

ParseArgumentList(p) ==
  IF ~Check(p, "RPAREN")
  THEN LET a == ParseSingleArgument(p, <<>>, <<>>) IN
       IF Failed(a) THEN a ELSE ArgumentLoop(a.pos, a.val.args, a.val.kwargs)
  ELSE POk(p, [args |-> <<>>, kwargs |-> <<>>])

(* Statements *)

\* _expr_to_assignment_target, called with the index p after the "="
ExprToAssignmentTarget(expr, p) ==
  LET \* the dotted path of an Identifier or of a FieldAccess chain rooted in one
      RECURSIVE AssignmentPath(_)
      AssignmentPath(e) ==
        IF e.kind = "Identifier" THEN [ok |-> TRUE, name |-> e.name]
        ELSE IF e.kind = "FieldAccess"
             THEN LET o == AssignmentPath(e.object) IN
                  IF o.ok THEN [ok |-> TRUE, name |-> o.name \o <<".">> \o e.field_name]
                  ELSE o
             ELSE [ok |-> FALSE, name |-> <<>>]
  IN
  LET path == AssignmentPath(expr) IN
  IF path.ok THEN POk(p, path.name)
  ELSE PFail(ParseError("Invalid assignment target",
                        [type |-> "ASSIGN", value |-> <<"=">>, line |-> expr.loc.line,
                         column |-> expr.loc.column, file |-> expr.loc.file]), p)

RECURSIVE StatementLoop(_, _)
RECURSIVE ParseIndentedBlock(_)

\* COLON NEWLINE INDENT, a statement block, DEDENT
ParseIndentedBlock(p) ==
  LET open == ExpectAll(p, <<"COLON", "NEWLINE", "INDENT">>) IN
  IF Failed(open) THEN open
  ELSE LET stmts == Self("_parse_statement_block", open.pos) IN
       IF Failed(stmts) THEN stmts
       ELSE LET close == Expect(stmts.pos, "DEDENT") IN
            IF Failed(close) THEN close ELSE POk(close.pos, stmts.val)

StatementLoop(p, stmts) ==
  IF ~Check(p, "DEDENT") /\ ~AtEndTok(p)
  THEN LET p1 == SkipNewlines(p) IN
       IF Check(p1, "DEDENT") \/ AtEndTok(p1) THEN POk(p1, stmts)
       ELSE LET s == Self("_parse_statement", p1) IN
            IF Failed(s) THEN s
            ELSE StatementLoop(SkipNewlines(s.pos), Append(stmts, s.val))
  ELSE POk(p, stmts)

ParseStatementBlock(p) == StatementLoop(p, <<>>)

ParseReturnStmt(p) ==
  LET value == Self("_parse_expression", p + 1) IN
  IF Failed(value) THEN value
  ELSE POk(value.pos, [kind |-> "ReturnStmt", loc |-> Loc(p), value |-> value.val])

ParseEmitStmt(p) ==
  LET event == Self("_parse_expression", p + 1) IN
  IF Failed(event) THEN event
  ELSE POk(event.pos, [kind |-> "EmitStmt", loc |-> Loc(p), event |-> event.val])

ParseIfStmt(p) ==
  LET condition == Self("_parse_expression", p + 1) IN
  IF Failed(condition) THEN condition
  ELSE LET then_body == ParseIndentedBlock(condition.pos) IN
       IF Failed(then_body) THEN then_body
       ELSE LET p1 == SkipNewlines(then_body.pos)
                else_body == IF Check(p1, "ELSE") THEN ParseIndentedBlock(p1 + 1)
                             ELSE POk(p1, <<>>)
            IN IF Failed(else_body) THEN else_body
               ELSE POk(else_body.pos,
                        [kind |-> "IfStmt", loc |-> Loc(p), condition |-> condition.val,
                         then_body |-> then_body.val, else_body |-> else_body.val])

ParseForStmt(p) ==
  LET var == ExpectAll(p + 1, <<"IDENTIFIER", "IN">>) IN
  IF Failed(var) THEN var
  ELSE LET iterable == Self("_parse_expression", var.pos) IN
       IF Failed(iterable) THEN iterable
       ELSE LET loop_body == ParseIndentedBlock(iterable.pos) IN
            IF Failed(loop_body) THEN loop_body
            ELSE POk(loop_body.pos,
                     [kind |-> "ForStmt", loc |-> Loc(p), var |-> Current(p + 1).value,
                      iterable |-> iterable.val, loop_body |-> loop_body.val])

ParseWhileStmt(p) ==
  LET condition == Self("_parse_expression", p + 1) IN
  IF Failed(condition) THEN condition
  ELSE LET loop_body == ParseIndentedBlock(condition.pos) IN
       IF Failed(loop_body) THEN loop_body
       ELSE POk(loop_body.pos,
                [kind |-> "WhileStmt", loc |-> Loc(p), condition |-> condition.val,
                 loop_body |-> loop_body.val])

ParseStatement(p) ==
  IF Check(p, "RETURN") THEN Self("_parse_return_stmt", p)
  ELSE IF Check(p, "EMIT") THEN Self("_parse_emit_stmt", p)
  ELSE IF Check(p, "IF") THEN Self("_parse_if_stmt", p)
  ELSE IF Check(p, "FOR") THEN Self("_parse_for_stmt", p)
  ELSE IF Check(p, "WHILE") THEN Self("_parse_while_stmt", p)
  ELSE LET expr == Self("_parse_expression", p) IN
       IF Failed(expr) THEN expr
       ELSE IF Check(expr.pos, "ASSIGN")
            THEN LET target == ExprToAssignmentTarget(expr.val, expr.pos + 1) IN
                 IF Failed(target) THEN target
                 ELSE LET value == Self("_parse_expression", target.pos) IN
                      IF Failed(value) THEN value
                      ELSE POk(value.pos,
                               [kind |-> "Assignment", loc |-> Loc(p),
                                target |-> target.val, value |-> value.val])
            ELSE POk(expr.pos, [kind |-> "ExprStmt", loc |-> Loc(p), expr |-> expr.val])

ParseExpressionListBlock(p) ==
  LET RECURSIVE ExpressionListLoop(_, _)
      ExpressionListLoop(at, exprs) ==
        IF ~Check(at, "DEDENT") /\ ~AtEndTok(at)
        THEN LET p1 == SkipNewlines(at) IN
             IF Check(p1, "DEDENT") \/ AtEndTok(p1) THEN POk(p1, exprs)
             ELSE LET e == Self("_parse_expression", p1) IN
                  IF Failed(e) THEN e
                  ELSE ExpressionListLoop(SkipNewlines(e.pos), Append(exprs, e.val))
        ELSE POk(at, exprs)
  IN
  ExpressionListLoop(p, <<>>)

(* Contract sections *)

\* _parse_precondition and _parse_postcondition: kind names the node
ParseConditions(p, keyword, kind) ==
  LET open == ExpectAll(p, <<keyword, "COLON", "NEWLINE", "INDENT">>) IN
  IF Failed(open) THEN open
  ELSE LET conditions == Self("_parse_expression_list_block", open.pos) IN
       IF Failed(conditions) THEN conditions
       ELSE LET close == Expect(conditions.pos, "DEDENT") IN
            IF Failed(close) THEN close
            ELSE POk(close.pos,
                     [kind |-> kind, loc |-> Loc(p), conditions |-> conditions.val])

ParsePrecondition(p) == ParseConditions(p, "PRECONDITION", "Precondition")

ParsePostcondition(p) == ParseConditions(p, "POSTCONDITION", "Postcondition")

ParseEffects(p) ==
  LET \* one declaration of an effects block
      ParseEffectDecl(at) ==
        LET \* the node of a modifies or a reads declaration
            TargetsEffect(targets) ==
              IF Failed(targets) THEN targets
              ELSE POk(targets.pos,
                       [kind |-> IF Check(at, "MODIFIES") THEN "ModifiesEffect"
                                 ELSE "ReadsEffect",
                        loc |-> Loc(targets.pos), targets |-> targets.val])
        IN
        IF Check(at, "MODIFIES") \/ Check(at, "READS")
        THEN TargetsEffect(ParseBracketedList(at + 1, "name"))
        ELSE IF Check(at, "EMITS")
        THEN LET event_name == Expect(at + 1, "IDENTIFIER") IN
             IF Failed(event_name) THEN event_name
             ELSE POk(event_name.pos,
                      [kind |-> "EmitsEffect", loc |-> Loc(event_name.pos),
                       event_type |-> event_name.val.value])
        ELSE IF Check(at, "TOUCHES_NOTHING_ELSE")
        THEN POk(at + 1, [kind |-> "TouchesNothingElse", loc |-> Loc(at + 1)])
        ELSE PFail(ParseError("Expected effect declaration", Current(at)), at)
      RECURSIVE EffectsLoop(_, _)
      EffectsLoop(at, declarations) ==
        LET \* declarations.append(...) and the rest of the loop
            Declared(d) ==
              IF Failed(d) THEN d
              ELSE EffectsLoop(SkipNewlines(d.pos), Append(declarations, d.val))
        IN
        IF ~Check(at, "DEDENT") /\ ~AtEndTok(at)
        THEN LET p1 == SkipNewlines(at) IN
             IF Check(p1, "DEDENT") THEN POk(p1, declarations)
             ELSE Declared(ParseEffectDecl(p1))
        ELSE POk(at, declarations)
  IN
  LET \* the DEDENT after the declarations, and the node
      Close(declarations) ==
        IF Failed(declarations) THEN declarations
        ELSE LET close == Expect(declarations.pos, "DEDENT") IN
             IF Failed(close) THEN close
             ELSE POk(close.pos,
                      [kind |-> "Effects", loc |-> Loc(p),
                       declarations |-> declarations.val])
      open == ExpectAll(p, <<"EFFECTS", "COLON", "NEWLINE", "INDENT">>)
  IN IF Failed(open) THEN open ELSE Close(EffectsLoop(open.pos, <<>>))

ParsePermissions(p) ==
  LET \* one declaration of a permissions block, stored in the block record b
      ParsePermissionDecl(from, b) ==
        LET \* " ".join(policy_parts)
            RECURSIVE JoinWithSpaces(_)
            JoinWithSpaces(parts) ==
              IF parts = <<>> THEN <<>>
              ELSE IF Len(parts) = 1 THEN parts[1]
              ELSE parts[1] \o <<" ">> \o JoinWithSpaces(Tail(parts))
            RECURSIVE EscalationLoop(_, _)
            EscalationLoop(at, policy_parts) ==
              IF ~Check(at, "NEWLINE") /\ ~Check(at, "DEDENT") /\ ~AtEndTok(at)
              THEN EscalationLoop(at + 1, Append(policy_parts, Current(at).value))
              ELSE POk(at, policy_parts)
        IN
        LET \* the grants or the denies of the block
            Listed(perms) ==
              IF Failed(perms) THEN perms
              ELSE IF Check(from, "GRANTS")
                   THEN POk(perms.pos,
                            [b EXCEPT !.grants = [kind |-> "GrantsPermission",
                                                  loc |-> Loc(perms.pos),
                                                  permissions |-> perms.val]])
                   ELSE POk(perms.pos,
                            [b EXCEPT !.denies = [kind |-> "DeniesPermission",
                                                  loc |-> Loc(perms.pos),
                                                  permissions |-> perms.val]])
            colon == Expect(from + 1, "COLON")
        IN
        IF Check(from, "GRANTS") \/ Check(from, "DENIES")
        THEN IF Failed(colon) THEN colon
             ELSE Listed(ParseBracketedList(colon.pos, "permission"))
        ELSE IF Check(from, "ESCALATION")
        THEN IF Failed(colon) THEN colon
             ELSE LET parts == EscalationLoop(colon.pos, <<>>) IN
                  POk(parts.pos,
                      [b EXCEPT !.escalation = [kind |-> "EscalationPolicy",
                                                loc |-> Loc(parts.pos),
                                                policy |-> JoinWithSpaces(parts.val)]])
        ELSE PFail(ParseError("Expected permission declaration", Current(from)), from)
      RECURSIVE PermissionsLoop(_, _)
      PermissionsLoop(at, b) ==
        LET \* the rest of the loop after a declaration
            Declared(d) ==
              IF Failed(d) THEN d ELSE PermissionsLoop(SkipNewlines(d.pos), d.val)
        IN
        IF ~Check(at, "DEDENT") /\ ~AtEndTok(at)
        THEN LET p1 == SkipNewlines(at) IN
             IF Check(p1, "DEDENT") THEN POk(p1, b)
             ELSE Declared(ParsePermissionDecl(p1, b))
        ELSE POk(at, b)
  IN
  LET \* the DEDENT after the declarations
      Close(b) ==
        IF Failed(b) THEN b
        ELSE LET close == Expect(b.pos, "DEDENT") IN
             IF Failed(close) THEN close ELSE POk(close.pos, b.val)
      open == ExpectAll(p, <<"PERMISSIONS", "COLON", "NEWLINE", "INDENT">>)
  IN IF Failed(open) THEN open
     ELSE Close(PermissionsLoop(open.pos,
                  [kind |-> "PermissionsBlock", loc |-> Loc(p), grants |-> None,
                   denies |-> None, escalation |-> None]))

\* _parse_body and _parse_on_failure: kind names the node
ParseStatements(p, keyword, kind) ==
  LET kw == Expect(p, keyword) IN
  IF Failed(kw) THEN kw
  ELSE LET stmts == ParseIndentedBlock(kw.pos) IN
       IF Failed(stmts) THEN stmts
       ELSE POk(stmts.pos, [kind |-> kind, loc |-> Loc(p), statements |-> stmts.val])

ParseBody(p) == ParseStatements(p, "BODY", "Body")

ParseOnFailure(p) == ParseStatements(p, "ON_FAILURE", "OnFailure")

(* Contract definition *)

SectionKeywords ==
  {"PRECONDITION", "POSTCONDITION", "EFFECTS", "PERMISSIONS", "BODY", "ON_FAILURE"}

ParseContractDef(p) ==
  LET \* the local variable of _parse_contract_def that a section keyword assigns
      SectionField(keyword) ==
        CASE keyword = "PRECONDITION" -> "precondition"
          [] keyword = "POSTCONDITION" -> "postcondition"
          [] keyword = "EFFECTS" -> "effects"
          [] keyword = "PERMISSIONS" -> "permissions"
          [] keyword = "BODY" -> "body"
          [] keyword = "ON_FAILURE" -> "on_failure"
      ParseSection(keyword, at) ==
        CASE keyword = "PRECONDITION" -> Self("_parse_precondition", at)
          [] keyword = "POSTCONDITION" -> Self("_parse_postcondition", at)
          [] keyword = "EFFECTS" -> Self("_parse_effects", at)
          [] keyword = "PERMISSIONS" -> Self("_parse_permissions", at)
          [] keyword = "BODY" -> Self("_parse_body", at)
          [] keyword = "ON_FAILURE" -> Self("_parse_on_failure", at)
      \* the section loop of _parse_contract_def; s holds the six locals
      RECURSIVE SectionLoop(_, _)
      SectionLoop(at, s) ==
        IF ~Check(at, "DEDENT") /\ ~AtEndTok(at)
        THEN LET p1 == SkipNewlines(at) IN
             IF Check(p1, "DEDENT") \/ AtEndTok(p1) THEN POk(p1, s)
             ELSE IF Current(p1).type \in SectionKeywords
                  THEN LET section == ParseSection(Current(p1).type, p1) IN
                       IF Failed(section) THEN section
                       ELSE SectionLoop(SkipNewlines(section.pos),
                                        [s EXCEPT ![SectionField(Current(p1).type)] = section.val])
                  ELSE PFail(ParseError("Expected contract section", Current(p1)), p1)
        ELSE POk(at, s)
  IN
  LET name == ExpectAll(p, <<"CONTRACT", "IDENTIFIER">>) IN
  IF Failed(name) THEN name
  ELSE LET open == Expect(name.pos, "LPAREN") IN
  IF Failed(open) THEN open
  ELSE LET params == Self("_parse_param_list", open.pos) IN
  IF Failed(params) THEN params
  ELSE LET arrow == ExpectAll(params.pos, <<"RPAREN", "ARROW">>) IN
  IF Failed(arrow) THEN arrow
  ELSE LET return_type == Self("_parse_type_expr", arrow.pos) IN
  IF Failed(return_type) THEN return_type
  ELSE LET indent == ExpectAll(return_type.pos, <<"NEWLINE", "INDENT">>) IN
  IF Failed(indent) THEN indent
  ELSE LET s == SectionLoop(indent.pos,
                  [precondition |-> None, postcondition |-> None, effects |-> None,
                   permissions |-> None, body |-> None, on_failure |-> None]) IN
  IF Failed(s) THEN s
  ELSE LET close == Expect(s.pos, "DEDENT") IN
  IF Failed(close) THEN close
  ELSE POk(close.pos,
           [kind |-> "ContractDef", loc |-> Loc(p), name |-> name.val.value,
            params |-> params.val, return_type |-> return_type.val,
            precondition |-> s.val.precondition, postcondition |-> s.val.postcondition,
            effects |-> s.val.effects, permissions |-> s.val.permissions,
            body |-> s.val.body, on_failure |-> s.val.on_failure])

(* File header *)

ParseIntentBlock(p) ==
  LET text == ExpectAll(p, <<"INTENT", "COLON", "STRING">>) IN
  IF Failed(text) THEN text
  ELSE POk(text.pos, [kind |-> "IntentBlock", loc |-> Loc(p), text |-> text.val.value])

ParseScopeDecl(p) ==
  LET colon == ExpectAll(p, <<"SCOPE", "COLON">>) IN
  IF Failed(colon) THEN colon
  ELSE LET path == Self("_parse_dotted_name", colon.pos) IN
       IF Failed(path) THEN path
       ELSE POk(path.pos, [kind |-> "ScopeDecl", loc |-> Loc(p), path |-> path.val])

level_map == {"LOW", "MEDIUM", "HIGH", "CRITICAL"}

ParseRiskDecl(p) ==
  LET colon == ExpectAll(p, <<"RISK", "COLON">>) IN
  IF Failed(colon) THEN colon
  ELSE IF Current(colon.pos).type \notin level_map
       THEN PFail(ParseError("Expected risk level", Current(colon.pos)), colon.pos)
       ELSE POk(colon.pos + 1,
                [kind |-> "RiskDecl", loc |-> Loc(p), level |-> Current(colon.pos).type])

ParseRequiresDecl(p) ==
  LET Requires(capabilities) ==
        IF Failed(capabilities) THEN capabilities
        ELSE POk(capabilities.pos,
                 [kind |-> "RequiresDecl", loc |-> Loc(p),
                  capabilities |-> capabilities.val])
      colon == ExpectAll(p, <<"REQUIRES", "COLON">>)
  IN IF Failed(colon) THEN colon
     ELSE Requires(ParseBracketedList(colon.pos, "name"))

HeaderOrderScopeFirst == <<"SCOPE", "INTENT", "RISK", "REQUIRES">>

\* the order in which _parse_file_header tests for its four sections
HeaderOrder == <<"INTENT", "SCOPE", "RISK", "REQUIRES">>

ParseFileHeader(p) ==
  LET HeaderField(keyword) ==
        CASE keyword = "INTENT" -> "intent"
          [] keyword = "SCOPE" -> "scope"
          [] keyword = "RISK" -> "risk"
          [] keyword = "REQUIRES" -> "requires"
      ParseHeaderSection(keyword, at) ==
        CASE keyword = "INTENT" -> Self("_parse_intent_block", at)
          [] keyword = "SCOPE" -> Self("_parse_scope_decl", at)
          [] keyword = "RISK" -> Self("_parse_risk_decl", at)
          [] keyword = "REQUIRES" -> Self("_parse_requires_decl", at)
      \* the four "if self._check(...)" steps of _parse_file_header, in turn
      RECURSIVE HeaderLoop(_, _, _)
      HeaderLoop(at, order, h) ==
        IF order = <<>> THEN POk(at, h)
        ELSE IF Check(at, Head(order))
             THEN LET section == ParseHeaderSection(Head(order), at) IN
                  IF Failed(section) THEN section
                  ELSE HeaderLoop(SkipNewlines(section.pos), Tail(order),
                                  [h EXCEPT ![HeaderField(Head(order))] = section.val])
             ELSE HeaderLoop(at, Tail(order), h)
  IN
  LET h == HeaderLoop(SkipNewlines(p), HeaderOrder,
                      [intent |-> None, scope |-> None, risk |-> None, requires |-> None])
  IN IF Failed(h) THEN h
     ELSE IF /\ h.val.intent.kind = "None" /\ h.val.scope.kind = "None"
             /\ h.val.risk.kind = "None" /\ h.val.requires.kind = "None"
          THEN POk(h.pos, None)
          ELSE POk(h.pos, [kind |-> "FileHeader", loc |-> Loc(h.pos),
                           intent |-> h.val.intent, scope |-> h.val.scope,
                           risk |-> h.val.risk, requires |-> h.val.requires])

(* Type definitions *)

ParseFieldDef(p) ==
  LET colon == ExpectAll(p, <<"IDENTIFIER", "COLON">>) IN
  IF Failed(colon) THEN colon
  ELSE LET t == Self("_parse_type_expr", colon.pos) IN
       IF Failed(t) THEN t
       ELSE POk(t.pos, [kind |-> "FieldDef", loc |-> Loc(p), name |-> Current(p).value,
                        type_expr |-> t.val])

ParseFlowConstraint(p) ==
  LET NeverFlowsTo(destinations) ==
        IF Failed(destinations) THEN destinations
        ELSE POk(destinations.pos,
                 [kind |-> "NeverFlowsTo", loc |-> Loc(p),
                  destinations |-> destinations.val])
  IN
  IF Check(p, "NEVER_FLOWS_TO")
  THEN LET colon == Expect(p + 1, "COLON") IN
       IF Failed(colon) THEN colon
       ELSE NeverFlowsTo(ParseBracketedList(colon.pos, "name"))
  ELSE IF Check(p, "REQUIRES_CONTEXT")
  THEN LET context == ExpectAll(p + 1, <<"COLON", "IDENTIFIER">>) IN
       IF Failed(context) THEN context
       ELSE POk(context.pos,
                [kind |-> "RequiresContext", loc |-> Loc(p), context |-> context.val.value])
  ELSE PFail(ParseError("Expected flow constraint", Current(p)), p)

ParseTypeDef(p) ==
  LET \* a fields: or flow_constraints: block, appended to the list it extends
      ParseTypeBlock(from, items, item_parser) ==
        LET \* the inner loops of _parse_type_def: parser is "field" or "flow"
            RECURSIVE TypeItemLoop(_, _, _)
            TypeItemLoop(at, found, parser) ==
              IF ~Check(at, "DEDENT") /\ ~AtEndTok(at)
              THEN LET p1 == SkipNewlines(at) IN
                   IF Check(p1, "DEDENT") THEN POk(p1, found)
                   ELSE LET i == IF parser = "field" THEN Self("_parse_field_def", p1)
                                 ELSE Self("_parse_flow_constraint", p1)
                        IN IF Failed(i) THEN i
                           ELSE TypeItemLoop(SkipNewlines(i.pos), Append(found, i.val), parser)
              ELSE POk(at, found)
        IN
        LET \* the DEDENT after the items
            Close(more) ==
              IF Failed(more) THEN more
              ELSE LET close == Expect(more.pos, "DEDENT") IN
                   IF Failed(close) THEN close ELSE POk(close.pos, more.val)
            open == ExpectAll(from + 1, <<"COLON", "NEWLINE", "INDENT">>)
        IN IF Failed(open) THEN open
           ELSE Close(TypeItemLoop(open.pos, items, item_parser))
      RECURSIVE TypeDefLoop(_, _, _)
      TypeDefLoop(at, fields, flow_constraints) ==
        LET \* the rest of the loop after a fields block
            Fields(b) ==
              IF Failed(b) THEN b
              ELSE TypeDefLoop(SkipNewlines(b.pos), b.val, flow_constraints)
            \* the rest of the loop after a flow_constraints block
            FlowConstraints(b) ==
              IF Failed(b) THEN b
              ELSE TypeDefLoop(SkipNewlines(b.pos), fields, b.val)
        IN
        IF ~Check(at, "DEDENT") /\ ~AtEndTok(at)
        THEN LET p1 == SkipNewlines(at) IN
             IF Check(p1, "DEDENT")
             THEN POk(p1, [fields |-> fields, flow_constraints |-> flow_constraints])
             ELSE IF Check(p1, "FIELDS")
             THEN Fields(ParseTypeBlock(p1, fields, "field"))
             ELSE IF Check(p1, "FLOW_CONSTRAINTS")
             THEN FlowConstraints(ParseTypeBlock(p1, flow_constraints, "flow"))
             ELSE PFail(ParseError("Expected 'fields' or 'flow_constraints' in type definition",
                                   Current(p1)), p1)
        ELSE POk(at, [fields |-> fields, flow_constraints |-> flow_constraints])
  IN
  LET \* the DEDENT after the blocks, and the node
      Close(body) ==
        IF Failed(body) THEN body
        ELSE LET close == Expect(body.pos, "DEDENT") IN
             IF Failed(close) THEN close
             ELSE POk(close.pos,
                      [kind |-> "TypeDef", loc |-> Loc(p), name |-> Current(p + 1).value,
                       base_type |-> Current(p + 3).value, fields |-> body.val.fields,
                       flow_constraints |-> body.val.flow_constraints])
      open == ExpectAll(p, <<"TYPE", "IDENTIFIER", "ASSIGN", "IDENTIFIER", "NEWLINE",
                             "INDENT">>)
  IN IF Failed(open) THEN open ELSE Close(TypeDefLoop(open.pos, <<>>, <<>>))

(* Shared declarations *)

ParseSharedDecl(p) ==
  LET SharedKeywords == {"ACCESS", "ISOLATION", "AUDIT"}
      SharedField(keyword) ==
        CASE keyword = "ACCESS" -> "access"
          [] keyword = "ISOLATION" -> "isolation"
          [] keyword = "AUDIT" -> "audit"
      RECURSIVE SharedLoop(_, _)
      SharedLoop(at, d) ==
        IF ~Check(at, "DEDENT") /\ ~AtEndTok(at)
        THEN LET p1 == SkipNewlines(at) IN
             IF Check(p1, "DEDENT") THEN POk(p1, d)
             ELSE IF Current(p1).type \in SharedKeywords
                  THEN LET value == ExpectAll(p1 + 1, <<"COLON", "IDENTIFIER">>) IN
                       IF Failed(value) THEN value
                       ELSE SharedLoop(SkipNewlines(value.pos),
                                       [d EXCEPT ![SharedField(Current(p1).type)] = value.val.value])
                  ELSE PFail(ParseError("Expected shared declaration property", Current(p1)), p1)
        ELSE POk(at, d)
  IN
  LET open == ExpectAll(p, <<"SHARED", "IDENTIFIER", "COLON", "IDENTIFIER", "NEWLINE",
                             "INDENT">>) IN
  IF Failed(open) THEN open
  ELSE LET d == SharedLoop(open.pos,
                  [kind |-> "SharedDecl", loc |-> Loc(p), name |-> Current(p + 1).value,
                   type_name |-> Current(p + 3).value, access |-> <<>>,
                   isolation |-> <<>>, audit |-> <<>>])
       IN IF Failed(d) THEN d
          ELSE LET close == Expect(d.pos, "DEDENT") IN
               IF Failed(close) THEN close ELSE POk(close.pos, d.val)

Self(method, p) ==
  CASE method = "_parse_dotted_name" -> ParseDottedName(p)
    [] method = "_parse_permission_expr" -> ParsePermissionExpr(p)
    [] method = "_parse_type_expr" -> ParseTypeExpr(p)
    [] method = "_parse_param" -> ParseParam(p)
    [] method = "_parse_param_list" -> ParseParamList(p)
    [] method = "_parse_or_expr" -> ParseOrExpr(p)
    [] method = "_parse_expression" -> ParseExpression(p)
    [] method = "_parse_and_expr" -> ParseAndExpr(p)
    [] method = "_parse_not_expr" -> ParseNotExpr(p)
    [] method = "_parse_comparison" -> ParseComparison(p)
    [] method = "_parse_has_expr" -> ParseHasExpr(p)
    [] method = "_parse_additive" -> ParseAdditive(p)
    [] method = "_parse_multiplicative" -> ParseMultiplicative(p)
    [] method = "_parse_unary" -> ParseUnary(p)
    [] method = "_parse_postfix" -> ParsePostfix(p)
    [] method = "_parse_primary" -> ParsePrimary(p)
    [] method = "_parse_list_literal" -> ParseListLiteral(p)
    [] method = "_parse_argument_list" -> ParseArgumentList(p)
    [] method = "_parse_statement_block" -> ParseStatementBlock(p)
    [] method = "_parse_return_stmt" -> ParseReturnStmt(p)
    [] method = "_parse_emit_stmt" -> ParseEmitStmt(p)
    [] method = "_parse_if_stmt" -> ParseIfStmt(p)
    [] method = "_parse_for_stmt" -> ParseForStmt(p)
    [] method = "_parse_while_stmt" -> ParseWhileStmt(p)
    [] method = "_parse_statement" -> ParseStatement(p)
    [] method = "_parse_expression_list_block" -> ParseExpressionListBlock(p)
    [] method = "_parse_precondition" -> ParsePrecondition(p)
    [] method = "_parse_postcondition" -> ParsePostcondition(p)
    [] method = "_parse_effects" -> ParseEffects(p)
    [] method = "_parse_permissions" -> ParsePermissions(p)
    [] method = "_parse_body" -> ParseBody(p)
    [] method = "_parse_on_failure" -> ParseOnFailure(p)
    [] method = "_parse_contract_def" -> ParseContractDef(p)
    [] method = "_parse_intent_block" -> ParseIntentBlock(p)
    [] method = "_parse_scope_decl" -> ParseScopeDecl(p)
    [] method = "_parse_risk_decl" -> ParseRiskDecl(p)
    [] method = "_parse_requires_decl" -> ParseRequiresDecl(p)
    [] method = "_parse_file_header" -> ParseFileHeader(p)
    [] method = "_parse_field_def" -> ParseFieldDef(p)
    [] method = "_parse_flow_constraint" -> ParseFlowConstraint(p)
    [] method = "_parse_type_def" -> ParseTypeDef(p)
    [] method = "_parse_shared_decl" -> ParseSharedDecl(p)

-----------------------------------------------------------------------------
(* Programs given to Lexer.tokenize and then to Parser.parse *)

MaxHeader == 3

MaxSections == 2

\* the four sections of a file header
HeaderTexts ==
  {
   \* intent: "a"
   <<"i","n","t","e","n","t",":"," ","\"","a","\"">>,
   \* scope: a
   <<"s","c","o","p","e",":"," ","a">>,
   \* risk: high
   <<"r","i","s","k",":"," ","h","i","g","h">>,
   \* requires: [a]
   <<"r","e","q","u","i","r","e","s",":"," ","[","a","]">>
  }

\* up to MaxHeader header sections, in any order, each followed by the end of
\* its line or by a space only
HeaderSources ==
  {Concat(ls) :
     ls \in UNION {[1..n -> {text \o sep : text \in HeaderTexts,
                                          sep \in {<<"\n">>, <<" ">>}}] :
                     n \in 0..MaxHeader}}

\* contract f(a: T) -> T\n
ContractHead ==
  <<"c","o","n","t","r","a","c","t"," ","f","(","a",":"," ","T",")"," ","-",">"," ","T",
    "\n">>

\* sections of a contract block
SectionTexts ==
  {
   \*   precondition:\n    a\n
   <<" "," ","p","r","e","c","o","n","d","i","t","i","o","n",":","\n"," "," "," "," ",
     "a","\n">>,
   \*   postcondition:\n    a\n
   <<" "," ","p","o","s","t","c","o","n","d","i","t","i","o","n",":","\n"," "," "," ",
     " ","a","\n">>,
   \*   effects:\n    reads [a]\n
   <<" "," ","e","f","f","e","c","t","s",":","\n"," "," "," "," ","r","e","a","d","s",
     " ","[","a","]","\n">>,
   \*   permissions:\n    grants: [a]\n
   <<" "," ","p","e","r","m","i","s","s","i","o","n","s",":","\n"," "," "," "," ","g",
     "r","a","n","t","s",":"," ","[","a","]","\n">>,
   \*   body:\n    return 1\n
   <<" "," ","b","o","d","y",":","\n"," "," "," "," ","r","e","t","u","r","n"," ","1",
     "\n">>,
   \*   body:\n    return a\n
   <<" "," ","b","o","d","y",":","\n"," "," "," "," ","r","e","t","u","r","n"," ","a",
     "\n">>,
   \*   body:\n    return 1.5\n
   <<" "," ","b","o","d","y",":","\n"," "," "," "," ","r","e","t","u","r","n"," ","1",
     ".","5","\n">>,
   \*   body:\n    return 1.2.3\n
   <<" "," ","b","o","d","y",":","\n"," "," "," "," ","r","e","t","u","r","n"," ","1",
     ".","2",".","3","\n">>,
   \*   on_failure:\n    return a\n
   <<" "," ","o","n","_","f","a","i","l","u","r","e",":","\n"," "," "," "," ","r","e",
     "t","u","r","n"," ","a","\n">>
  }

\* a contract head and up to MaxSections sections, in any order
ContractSources ==
  {ContractHead \o Concat(ls) :
     ls \in UNION {[1..n -> SectionTexts] : n \in 0..MaxSections}}

\* whole files: lists of several items with an escalation text, a type, a
\* shared declaration, statements, and all together
FileSources ==
  {
   \* contract f(a: T) -> T\n  permissions:\n    grants: [read(a.b), c,]\n    denies: [d
   \* ]\n    escalation: ask a b\n  effects:\n    modifies [a, b.c]\n
   <<"c","o","n","t","r","a","c","t"," ","f","(","a",":"," ","T",")"," ","-",">"," ",
     "T","\n"," "," ","p","e","r","m","i","s","s","i","o","n","s",":","\n"," "," "," ",
     " ","g","r","a","n","t","s",":"," ","[","r","e","a","d","(","a",".","b",")",",",
     " ","c",",","]","\n"," "," "," "," ","d","e","n","i","e","s",":"," ","[","d","]",
     "\n"," "," "," "," ","e","s","c","a","l","a","t","i","o","n",":"," ","a","s","k",
     " ","a"," ","b","\n"," "," ","e","f","f","e","c","t","s",":","\n"," "," "," "," ",
     "m","o","d","i","f","i","e","s"," ","[","a",","," ","b",".","c","]","\n">>,
   \* type A = B\n  fields:\n    a: T\n  flow_constraints:\n    never_flows_to: [a]\n 
   \*    requires_context: a\n
   <<"t","y","p","e"," ","A"," ","="," ","B","\n"," "," ","f","i","e","l","d","s",":",
     "\n"," "," "," "," ","a",":"," ","T","\n"," "," ","f","l","o","w","_","c","o","n",
     "s","t","r","a","i","n","t","s",":","\n"," "," "," "," ","n","e","v","e","r","_",
     "f","l","o","w","s","_","t","o",":"," ","[","a","]","\n"," "," "," "," ","r","e",
     "q","u","i","r","e","s","_","c","o","n","t","e","x","t",":"," ","a","\n">>,
   \* shared a: T\n  access: a\n  isolation: b\n  audit: c\n
   <<"s","h","a","r","e","d"," ","a",":"," ","T","\n"," "," ","a","c","c","e","s","s",
     ":"," ","a","\n"," "," ","i","s","o","l","a","t","i","o","n",":"," ","b","\n"," ",
     " ","a","u","d","i","t",":"," ","c","\n">>,
   \* contract f(a: T) -> T\n  body:\n    a = f(1, b.c) + 2 * 3\n    if a < 1 and not 
   \* b:\n      emit X(a)\n    else:\n      a.b = [1, "a"]\n    for a in b:\n      ret
   \* urn a\n    while a has b:\n      return old(a)\n
   <<"c","o","n","t","r","a","c","t"," ","f","(","a",":"," ","T",")"," ","-",">"," ",
     "T","\n"," "," ","b","o","d","y",":","\n"," "," "," "," ","a"," ","="," ","f","(",
     "1",","," ","b",".","c",")"," ","+"," ","2"," ","*"," ","3","\n"," "," "," "," ",
     "i","f"," ","a"," ","<"," ","1"," ","a","n","d"," ","n","o","t"," ","b",":","\n",
     " "," "," "," "," "," ","e","m","i","t"," ","X","(","a",")","\n"," "," "," "," ",
     "e","l","s","e",":","\n"," "," "," "," "," "," ","a",".","b"," ","="," ","[","1",
     ","," ","\"","a","\"","]","\n"," "," "," "," ","f","o","r"," ","a"," ","i","n"," ",
     "b",":","\n"," "," "," "," "," "," ","r","e","t","u","r","n"," ","a","\n"," "," ",
     " "," ","w","h","i","l","e"," ","a"," ","h","a","s"," ","b",":","\n"," "," "," ",
     " "," "," ","r","e","t","u","r","n"," ","o","l","d","(","a",")","\n">>,
   \* intent: "a"\nscope: a\nrisk: high\nrequires: [a]\ncontract f(a: T) -> T\n  body:
   \* \n    return 1\ntype A = B\n  fields:\n    a: T\n  flow_constraints:\n    never_
   \* flows_to: [a]\n    requires_context: a\nshared a: T\n  access: a\n  isolation: b
   \* \n  audit: c\n
   <<"i","n","t","e","n","t",":"," ","\"","a","\"","\n","s","c","o","p","e",":"," ","a",
     "\n","r","i","s","k",":"," ","h","i","g","h","\n","r","e","q","u","i","r","e","s",
     ":"," ","[","a","]","\n","c","o","n","t","r","a","c","t"," ","f","(","a",":"," ",
     "T",")"," ","-",">"," ","T","\n"," "," ","b","o","d","y",":","\n"," "," "," "," ",
     "r","e","t","u","r","n"," ","1","\n","t","y","p","e"," ","A"," ","="," ","B","\n",
     " "," ","f","i","e","l","d","s",":","\n"," "," "," "," ","a",":"," ","T","\n"," ",
     " ","f","l","o","w","_","c","o","n","s","t","r","a","i","n","t","s",":","\n"," ",
     " "," "," ","n","e","v","e","r","_","f","l","o","w","s","_","t","o",":"," ","[",
     "a","]","\n"," "," "," "," ","r","e","q","u","i","r","e","s","_","c","o","n","t",
     "e","x","t",":"," ","a","\n","s","h","a","r","e","d"," ","a",":"," ","T","\n"," ",
     " ","a","c","c","e","s","s",":"," ","a","\n"," "," ","i","s","o","l","a","t","i",
     "o","n",":"," ","b","\n"," "," ","a","u","d","i","t",":"," ","c","\n">>
  }

ProgramSources == HeaderSources \cup ContractSources \cup FileSources

InitParse ==
  /\ source \in ProgramSources
  /\ pos = 0
  /\ line = 1
  /\ column = 1
  /\ tokens = <<>>
  /\ indent_stack = <<0>>
  /\ ppos = 0
  /\ program = EmptyProgram
  /\ phase = "tokenize"
  /\ error = NoErr
  /\ results = <<>>
  /\ fingerprints = <<>>
  /\ hashes = <<>>
  /\ comparison = None

\* the first statement of Parser.parse: header = self._parse_file_header()
ParseHeader ==
  /\ phase = "lexed"
  /\ \E header \in {Self("_parse_file_header", ppos)} :
     /\ ppos' = header.pos
     /\ error' = header.err
     /\ program' = [program EXCEPT !.header = header.val]
     /\ phase' = IF Failed(header) THEN "parse_failed" ELSE "items"
  /\ UNCHANGED <<source, pos, line, column, tokens, indent_stack>>
  /\ UNCHANGED engine

\* the dispatch of the loop of Parser.parse on the leading token
ParseTopLevel(p) ==
  IF Check(p, "CONTRACT") THEN Self("_parse_contract_def", p)
  ELSE IF Check(p, "TYPE") THEN Self("_parse_type_def", p)
  ELSE IF Check(p, "SHARED") THEN Self("_parse_shared_decl", p)
  ELSE PFail(ParseError("Expected 'contract', 'type', or 'shared' at top level",
                        Current(p)), p)

\* one iteration of the loop of Parser.parse
ParseTopLevelItem ==
  LET \* the list of Parser.parse that the item starting with this token extends
      ItemList(token_type) ==
        CASE token_type = "CONTRACT" -> "contracts"
          [] token_type = "TYPE" -> "type_defs"
          [] token_type = "SHARED" -> "shared_decls"
  IN
  /\ phase = "items"
  /\ ~AtEndTok(ppos)
  /\ LET p == SkipNewlines(ppos) IN
     IF AtEndTok(p)
     THEN /\ ppos' = p
          /\ UNCHANGED <<program, error, phase>>
     ELSE \E item \in {ParseTopLevel(p)} :
          /\ ppos' = item.pos
          /\ error' = item.err
          /\ phase' = IF Failed(item) THEN "parse_failed" ELSE "items"
          /\ program' =
               IF Failed(item) THEN program
               ELSE [program EXCEPT ![ItemList(Current(p).type)] =
                                      Append(@, item.val)]
  /\ UNCHANGED <<source, pos, line, column, tokens, indent_stack>>
  /\ UNCHANGED engine

\* the end of Parser.parse: return Program(loc=self._loc(), ...)
ParseReturn ==
  /\ phase = "items"
  /\ AtEndTok(ppos)
  /\ program' = [program EXCEPT !.loc = Loc(ppos)]
  /\ phase' = "parsed"
  /\ UNCHANGED <<source, pos, line, column, tokens, indent_stack, ppos, error>>
  /\ UNCHANGED engine

NextParse ==
  ScanLine \/ TokenizeReturn \/ ParseHeader \/ ParseTopLevelItem \/ ParseReturn

SpecParse == InitParse /\ [][NextParse]_vars

-----------------------------------------------------------------------------
(* Properties of the lexer *)

\* Lexer.tokenize has returned its token list
Returned == phase \notin {"tokenize", "lex_failed"}

CountType(toks, type, k) == Cardinality({i \in 1..k : toks[i].type = type})

\* the number of leading spaces of the text that starts at position p
RECURSIVE LeadingSpaces(_)
LeadingSpaces(p) ==
  IF p < Len(source) /\ source[p + 1] = " " THEN 1 + LeadingSpaces(p + 1) ELSE 0

FirstNonSpace(p) == p + LeadingSpaces(p)

\* the line that starts at position p is empty or holds spaces only
BlankLineAt(p) ==
  FirstNonSpace(p) >= Len(source) \/ source[FirstNonSpace(p) + 1] = "\n"

\* the first non-space characters of the line that starts at p are "--"
CommentLineAt(p) ==
  /\ FirstNonSpace(p) + 1 < Len(source)
  /\ source[FirstNonSpace(p) + 1] = "-"
  /\ source[FirstNonSpace(p) + 2] = "-"

ContentLineAt(p) == ~BlankLineAt(p) /\ ~CommentLineAt(p)

\* the positions at which a line of the source text starts
LineStarts == {p \in 0..(Len(source) - 1) : p = 0 \/ source[p] = "\n"}

\* the tokens a step appended
Added == SubSeq(tokens', Len(tokens) + 1, Len(tokens'))

\* a call of _scan_line is about to run
AboutToScanLine == phase = "tokenize" /\ pos < Len(source)

\* C1: on a successful lex, in every prefix of the token sequence the DEDENT
\* tokens are at most as many as the INDENT tokens, and over the whole
\* returned sequence the two counts are equal.
C1_IndentBalance ==
  /\ \A k \in 0..Len(tokens) :
       CountType(tokens, "DEDENT", k) <= CountType(tokens, "INDENT", k)
  /\ Returned =>
       CountType(tokens, "DEDENT", Len(tokens)) = CountType(tokens, "INDENT", Len(tokens))

\* a returned sequence with two INDENTs, closed again by two DEDENTs
C1_Witness ==
  /\ Returned
  /\ CountType(tokens, "INDENT", Len(tokens)) = 2
  /\ CountType(tokens, "DEDENT", Len(tokens)) = 2

\* C2: tokenize has exactly two outcomes: it returns a token sequence whose
\* last token is the only EOF token, or it fails with LexerError carrying
\* message, line, column and file; no scan error surfaces in any other way.
C2_TwoOutcomes ==
  /\ phase = "lex_failed" =>
       /\ error.kind = "LexerError"
       /\ DOMAIN error = {"kind", "message", "line", "column", "file"}
  /\ Returned =>
       /\ Len(tokens) >= 1
       /\ \A i \in 1..Len(tokens) : (tokens[i].type = "EOF") <=> (i = Len(tokens))

\* C3: no STRING token whose scanning consumed a newline character is ever
\* produced.  A token carries the line on which it starts, and the token that
\* follows a STRING in the stream is made before the scanned line's own
\* newline is consumed, so it is on a later line exactly when the scan of the
\* STRING itself went past a newline.
C3_NoNewlineInString ==
  \A i \in 1..(Len(tokens) - 1) :
    tokens[i].type = "STRING" => tokens[i + 1].line = tokens[i].line

\* the number of lines of the source text, from position p on, that are
\* neither blank nor comment-only
ContentLines == Cardinality({p \in LineStarts : ContentLineAt(p)})

\* C4 as claimed: on a successful lex the NEWLINE tokens are as many as the
\* lines that are neither blank nor comment-only.
C4_NewlinePerContentLine ==
  Returned => CountType(tokens, "NEWLINE", Len(tokens)) = ContentLines

\* C4 as amended: a scan of a content line appends exactly one NEWLINE, as the
\* last token of the line, when the scan ends by consuming a newline
\* character, and no NEWLINE when it ends at the end of the input; a blank or
\* comment-only line appends none.
C4_NewlinePerTerminatedLine ==
  [][(AboutToScanLine /\ phase' = "tokenize") =>
        IF ContentLineAt(pos) /\ source[pos'] = "\n"
        THEN /\ CountType(Added, "NEWLINE", Len(Added)) = 1
             /\ Added[Len(Added)].type = "NEWLINE"
        ELSE CountType(Added, "NEWLINE", Len(Added)) = 0]_vars

\* two content lines, the second ended by the end of the input: one NEWLINE
C4_Witness ==
  /\ Returned
  /\ ContentLines = 2
  /\ CountType(tokens, "NEWLINE", Len(tokens)) = 1

\* C5: a blank line or a comment-only line emits no token, leaves the indent
\* stack unchanged and raises nothing, whatever its leading spaces.
C5_BlankLinesSkipped ==
  [][(AboutToScanLine /\ (BlankLineAt(pos) \/ CommentLineAt(pos))) =>
        /\ tokens' = tokens
        /\ indent_stack' = indent_stack
        /\ phase' = "tokenize"]_vars

\* a comment-only line with an odd number of leading spaces, deeper than the
\* current level, has just been skipped
C5_Witness ==
  /\ phase = "tokenize"
  /\ indent_stack = <<0, 2>>
  /\ \E p \in LineStarts :
       /\ CommentLineAt(p)
       /\ LeadingSpaces(p) = 3
       /\ pos = FirstNonSpace(p) + 3
       /\ source[pos] = "\n"

\* C6: a content line with n leading spaces, n below the top of the indent
\* stack, pops one level and emits one DEDENT per stack entry greater than n,
\* before the line's own tokens; the lex fails with LexerError when n is not
\* an entry of the stack (after those pops), and not for that reason otherwise.
C6_Dedent ==
  [][(/\ AboutToScanLine
      /\ ContentLineAt(pos)
      /\ source[FirstNonSpace(pos) + 1] # "\t"
      /\ LeadingSpaces(pos) % INDENT_WIDTH = 0
      /\ LeadingSpaces(pos) < Top(indent_stack)) =>
        LET n == LeadingSpaces(pos)
            k == Cardinality({i \in 1..Len(indent_stack) : indent_stack[i] > n})
            pushed == \E i \in 1..Len(indent_stack) : indent_stack[i] = n
        IN /\ Len(Added) >= k
           /\ \A j \in 1..Len(Added) : (Added[j].type = "DEDENT") <=> (j <= k)
           /\ \A j \in 1..Len(Added) : Added[j].type # "INDENT"
           /\ indent_stack' = SubSeq(indent_stack, 1, Len(indent_stack) - k)
           /\ ~pushed => /\ phase' = "lex_failed"
                         /\ error'.kind = "LexerError"
                         /\ Len(Added) = k
           /\ pushed => \/ phase' = "tokenize"
                        \/ error'.message # "Dedent does not match any outer indentation level"]_vars

\* a line at the margin has closed two levels at once: DEDENT DEDENT, then
\* the line's identifier
C6_Witness ==
  /\ phase = "tokenize"
  /\ indent_stack = <<0>>
  /\ \E i \in 1..(Len(tokens) - 2) :
       /\ tokens[i].type = "DEDENT"
       /\ tokens[i + 1].type = "DEDENT"
       /\ tokens[i + 2].type = "IDENTIFIER"

AllDigits(value) == \A i \in 1..Len(value) : IsDigit(value[i])

\* C7: an INTEGER token's value holds digits only, and a FLOAT token's value
\* is digits, one '.', digits, with at least one digit on each side.
C7_NumberShape ==
  \A i \in 1..Len(tokens) :
    /\ tokens[i].type = "INTEGER" =>
         Len(tokens[i].value) >= 1 /\ AllDigits(tokens[i].value)
    /\ tokens[i].type = "FLOAT" =>
         \E d \in 2..(Len(tokens[i].value) - 1) :
           /\ tokens[i].value[d] = "."
           /\ AllDigits(SubSeq(tokens[i].value, 1, d - 1))
           /\ AllDigits(SubSeq(tokens[i].value, d + 1, Len(tokens[i].value)))

-----------------------------------------------------------------------------
(* Properties of the parser *)

\* Parser.parse has returned or raised
ParseEnded == phase \in {"parsed", "parse_failed"}

HeaderKeywords == {"INTENT", "SCOPE", "RISK", "REQUIRES"}

\* the place of a header section in the order intent, scope, risk, requires
HeaderRank(token_type) ==
  CASE token_type = "INTENT" -> 1
    [] token_type = "SCOPE" -> 2
    [] token_type = "RISK" -> 3
    [] token_type = "REQUIRES" -> 4

\* the tokens that open a header section: a header keyword before a colon
HeaderLeaders ==
  {i \in 1..(Len(tokens) - 1) :
     tokens[i].type \in HeaderKeywords /\ tokens[i + 1].type = "COLON"}

\* the header sections of the token sequence stand in the order of the grammar
HeaderInOrder ==
  \A i, j \in HeaderLeaders :
    i < j => HeaderRank(tokens[i].type) < HeaderRank(tokens[j].type)

\* the first token after the header section that token i opens: the next
\* section, the first top-level item, or EOF
RECURSIVE SectionBoundary(_)
SectionBoundary(i) ==
  IF \/ i + 1 >= Len(tokens)
     \/ i + 1 \in HeaderLeaders
     \/ tokens[i + 1].type \in {"CONTRACT", "TYPE", "SHARED", "EOF"}
  THEN i + 1
  ELSE SectionBoundary(i + 1)

\* the tokens that open a section of a contract block
SectionLeaders(token_type) ==
  {i \in 2..(Len(tokens) - 1) :
     /\ tokens[i].type = token_type
     /\ tokens[i + 1].type = "COLON"
     /\ tokens[i - 1].type \in {"INDENT", "DEDENT", "NEWLINE"}}

\* C8: after a successful tokenize, Parser.parse returns a Program or raises
\* a ParseError that carries the offending token of the token sequence; it
\* fails in no other way, and no Program is returned after an error.
C8_ProgramOrParseError ==
  /\ phase = "parse_failed" =>
       /\ error.kind = "ParseError"
       /\ \E i \in 1..Len(tokens) : tokens[i] = error.token
  /\ phase = "parsed" => error = NoErr

\* C9 as stated: a file header is accepted only with its sections in the
\* order intent, scope, risk, requires, each present section ended by a
\* NEWLINE token; sections out of order or not separated by NEWLINE are
\* rejected.
C9_HeaderSectionsTerminated ==
  phase = "parsed" =>
    /\ HeaderInOrder
    /\ \A i \in HeaderLeaders : tokens[SectionBoundary(i) - 1].type = "NEWLINE"

\* C9 as the code has it: a file header is accepted exactly when its sections
\* stand in the order intent, scope, risk, requires, each optional, whether or
\* not NEWLINE tokens stand between or after them; the FileHeader then holds
\* exactly the sections present, and a section out of order is rejected with
\* ParseError.
C9_HeaderInOrder ==
  ParseEnded =>
    /\ phase = "parsed" =>
         /\ HeaderInOrder
         /\ (program.header.kind = "None") = (HeaderLeaders = {})
         /\ program.header.kind = "FileHeader" =>
              /\ (program.header.intent.kind = "IntentBlock")
                   = (\E i \in HeaderLeaders : tokens[i].type = "INTENT")
              /\ (program.header.scope.kind = "ScopeDecl")
                   = (\E i \in HeaderLeaders : tokens[i].type = "SCOPE")
              /\ (program.header.risk.kind = "RiskDecl")
                   = (\E i \in HeaderLeaders : tokens[i].type = "RISK")
              /\ (program.header.requires.kind = "RequiresDecl")
                   = (\E i \in HeaderLeaders : tokens[i].type = "REQUIRES")
    /\ ~HeaderInOrder =>
         /\ phase = "parse_failed"
         /\ error.kind = "ParseError"
         /\ error.token.type \in HeaderKeywords
    /\ (source \in HeaderSources /\ HeaderInOrder) => phase = "parsed"

\* a header of two sections on one line, with no NEWLINE between them, parsed
C9_Witness ==
  /\ phase = "parsed"
  /\ program.header.kind = "FileHeader"
  /\ program.header.intent.kind = "IntentBlock"
  /\ program.header.scope.kind = "ScopeDecl"
  /\ \E i \in HeaderLeaders : i > 1 /\ tokens[i - 1].type # "NEWLINE"

\* C10: a contract block in which the same section keyword appears twice is
\* not parsed into a ContractDef.
C10_SectionsAtMostOnce ==
  program.contracts # <<>> =>
    \A token_type \in SectionKeywords :
      Cardinality(SectionLeaders(token_type)) <= 1

-----------------------------------------------------------------------------
(* Expressions without parentheses *)

\* contracts whose body is one return statement; its expression is up to
\* MaxOps + 1 operands joined by binary operators, an operand being a name, a
\* negated name, a name under "not", or a field of a name
ExprSources ==
  LET Operands ==
        {<<"a">>, <<"-","a">>, <<"n","o","t"," ","a">>, <<"a",".","b">>}
      Operators ==
        {<<" ","o","r"," ">>, <<" ","a","n","d"," ">>, <<" ","<"," ">>,
         <<" ","h","a","s"," ">>, <<" ","+"," ">>, <<" ","-"," ">>, <<" ","*"," ">>}
      RECURSIVE Exprs(_)
      Exprs(n) ==
        IF n = 0 THEN Operands
        ELSE {e \o o \o x : e \in Exprs(n - 1), o \in Operators, x \in Operands}
  IN
  {ContractHead
     \o <<" "," ","b","o","d","y",":","\n"," "," "," "," ","r","e","t","u","r","n"," ">>
     \o e \o <<"\n">> : e \in UNION {Exprs(n) : n \in 0..MaxOps}}

InitExpr ==
  /\ source \in ExprSources
  /\ pos = 0
  /\ line = 1
  /\ column = 1
  /\ tokens = <<>>
  /\ indent_stack = <<0>>
  /\ ppos = 0
  /\ program = EmptyProgram
  /\ phase = "tokenize"
  /\ error = NoErr
  /\ results = <<>>
  /\ fingerprints = <<>>
  /\ hashes = <<>>
  /\ comparison = None

SpecExpr == InitExpr /\ [][NextParse]_vars

\* the binding level of the operator at the root of an expression, 1 (or) to
\* 9 (postfix), and 10 for a primary
Level(e) ==
  CASE e.kind = "BinaryOp" ->
         (CASE e.op = "or" -> 1
            [] e.op = "and" -> 2
            [] e.op \in {"==", "!=", "<", "<=", ">", ">="} -> 4
            [] e.op \in {"+", "-"} -> 6
            [] e.op \in {"*", "/"} -> 7)
    [] e.kind = "UnaryOp" -> (IF e.op = "not" THEN 3 ELSE 8)
    [] e.kind = "HasExpr" -> 5
    [] e.kind \in {"FieldAccess", "MethodCall", "FunctionCall"} -> 9
    [] OTHER -> 10

\* every operator of the tree has only operators of its own level or higher
\* below it, and a binary operator has strictly higher ones on its right
RECURSIVE BindsByLevel(_)
BindsByLevel(e) ==
  CASE e.kind = "BinaryOp" ->
         /\ Level(e.left) >= Level(e)
         /\ Level(e.right) > Level(e)
         /\ BindsByLevel(e.left)
         /\ BindsByLevel(e.right)
    [] e.kind = "UnaryOp" -> Level(e.operand) >= Level(e) /\ BindsByLevel(e.operand)
    [] e.kind = "HasExpr" ->
         /\ Level(e.subject) > Level(e)
         /\ Level(e.capability) > Level(e)
         /\ BindsByLevel(e.subject)
         /\ BindsByLevel(e.capability)
    [] e.kind = "FieldAccess" -> Level(e.object) >= Level(e) /\ BindsByLevel(e.object)
    [] OTHER -> TRUE

\* the token types of an expression tree read from left to right
RECURSIVE Yield(_)
Yield(e) ==
  LET OpType(op) ==
        CASE op = "or" -> "OR" [] op = "and" -> "AND" [] op = "not" -> "NOT"
          [] op = "<" -> "LESS_THAN" [] op = "+" -> "PLUS" [] op = "-" -> "MINUS"
          [] op = "*" -> "STAR"
  IN
  CASE e.kind = "BinaryOp" -> Yield(e.left) \o <<OpType(e.op)>> \o Yield(e.right)
    [] e.kind = "UnaryOp" -> <<OpType(e.op)>> \o Yield(e.operand)
    [] e.kind = "HasExpr" -> Yield(e.subject) \o <<"HAS">> \o Yield(e.capability)
    [] e.kind = "FieldAccess" -> Yield(e.object) \o <<"DOT", "IDENTIFIER">>
    [] e.kind = "Identifier" -> <<"IDENTIFIER">>

\* the token types between the RETURN token and the NEWLINE that ends its line
ReturnedTokenTypes ==
  LET first == 1 + CHOOSE i \in 1..Len(tokens) : tokens[i].type = "RETURN"
      last == (CHOOSE i \in first..Len(tokens) :
                 /\ tokens[i].type = "NEWLINE"
                 /\ \A j \in first..(i - 1) : tokens[j].type # "NEWLINE") - 1
  IN [i \in 1..(last - first + 1) |-> tokens[first + i - 1].type]

ReturnedValue == program.contracts[1].body.statements[1].value

\* C11: an expression without parentheses that the parser accepts is parsed
\* into the tree of its tokens in which operators bind in the order or < and
\* < not < comparison < has < additive < multiplicative < unary minus <
\* postfix < primary: an operator of a higher level is an operand of the
\* neighbouring operator of a lower level, and the operators of one additive,
\* multiplicative or comparison level associate to the left.
C11_PrecedenceOrder ==
  (source \in ExprSources /\ phase = "parsed") =>
    /\ Yield(ReturnedValue) = ReturnedTokenTypes
    /\ BindsByLevel(ReturnedValue)

\* a + a * a parsed: the product is the right operand of the sum
C11_Witness ==
  /\ source \in ExprSources
  /\ phase = "parsed"
  /\ ReturnedValue.kind = "BinaryOp"
  /\ ReturnedValue.op = "+"
  /\ ReturnedValue.left.kind = "Identifier"
  /\ ReturnedValue.right.kind = "BinaryOp"
  /\ ReturnedValue.right.op = "*"

-----------------------------------------------------------------------------
(* Intent verification engine: the behavioural fingerprint                  *)
(* (covenant/verify/fingerprint.py).  A Python string is a sequence of      *)
(* characters, a set of strings a set of such sequences; an operator of an  *)
(* expression is the string the parser stored.                              *)

\* BehavioralFingerprint(): the sets and lists empty, the flags false
BehavioralFingerprint ==
  [kind |-> "BehavioralFingerprint",
   reads |-> {}, mutations |-> {}, calls |-> {}, emitted_events |-> {},
   old_references |-> {}, capability_checks |-> {},
   operators |-> <<>>, literals |-> <<>>,
   has_branching |-> FALSE, has_looping |-> FALSE, has_recursion |-> FALSE,
   return_count |-> 0, max_nesting_depth |-> 0]

\* str(value) of the value of a NumberLiteral or of a BoolLiteral; a float is
\* printed with its fraction digits, or with ".0" when it has none
Str(value, is_bool) ==
  LET digit == <<"0", "1", "2", "3", "4", "5", "6", "7", "8", "9">>
      RECURSIVE OfInt(_)
      OfInt(n) ==
        IF n < 10 THEN <<digit[n + 1]>> ELSE Append(OfInt(n \div 10), digit[(n % 10) + 1])
  IN
  IF is_bool
  THEN IF value THEN <<"T","r","u","e">> ELSE <<"F","a","l","s","e">>
  ELSE IF "int" \in DOMAIN value THEN OfInt(value.int)
       ELSE OfInt(value.whole) \o <<".">>
              \o (IF value.frac = <<>> THEN <<"0">> ELSE value.frac)

\* repr(value) of a str: in single quotes, or in double quotes when it holds
\* a single quote and no double quote; backslash, the enclosing quote,
\* newline and tab are escaped
Repr(value) ==
  LET single == \E i \in 1..Len(value) : value[i] = "'"
      double == \E i \in 1..Len(value) : value[i] = "\""
      quote == IF single /\ ~double THEN "\"" ELSE "'"
      Escaped(ch) ==
        CASE ch = "\\" -> <<"\\", "\\">>
          [] ch = "\n" -> <<"\\", "n">>
          [] ch = "\t" -> <<"\\", "t">>
          [] ch = quote -> <<"\\", ch>>
          [] OTHER -> <<ch>>
      RECURSIVE Body(_)
      Body(rest) == IF rest = <<>> THEN <<>> ELSE Escaped(Head(rest)) \o Body(Tail(rest))
  IN <<quote>> \o Body(value) \o <<quote>>

\* _extract_dotted_path: the field names of a FieldAccess chain from the
\* root outwards, behind the name of the root when the root is an
\* Identifier, joined by "."
ExtractDottedPath(expr) ==
  LET RECURSIVE Reversed(_)
      Reversed(current) ==
        IF current.kind = "FieldAccess"
        THEN Append(Reversed(current.object), current.field_name)
        ELSE IF current.kind = "Identifier" THEN <<current.name>> ELSE <<>>
      RECURSIVE Join(_)
      Join(parts) ==
        IF parts = <<>> THEN <<>>
        ELSE IF Len(parts) = 1 THEN parts[1]
        ELSE parts[1] \o <<".">> \o Join(Tail(parts))
  IN Join(Reversed(expr))

ExtractCallName(expr) ==
  IF expr.kind = "None" THEN <<>>
  ELSE IF expr.kind = "Identifier" THEN expr.name
  ELSE IF expr.kind = "FieldAccess" THEN ExtractDottedPath(expr)
  ELSE <<"<","i","n","d","i","r","e","c","t",">">>

ExtractDottedPathFromExpr(expr) ==
  IF expr.kind = "Identifier" THEN expr.name
  ELSE IF expr.kind = "FieldAccess" THEN ExtractDottedPath(expr)
  ELSE IF expr.kind = "MethodCall"
       THEN LET obj == ExtractCallName(expr.object) IN
            IF obj # <<>> THEN obj \o <<".">> \o expr.method \o <<"(", ")">>
            ELSE expr.method \o <<"(", ")">>
  ELSE IF expr.kind = "FunctionCall"
       THEN ExtractCallName(expr.function) \o <<"(", ")">>
  ELSE <<"<","c","o","m","p","l","e","x",">">>

\* _extract_event_name: a str, or None
ExtractEventName(expr) ==
  IF expr.kind = "FunctionCall"
  THEN [kind |-> "str", value |-> ExtractCallName(expr.function)]
  ELSE IF expr.kind = "Identifier" THEN [kind |-> "str", value |-> expr.name]
  ELSE None

\* _ASTWalker.walk_expr on the fingerprint fp; the result is fp afterwards
RECURSIVE WalkExpr(_, _, _)
WalkExpr(expr, contract_name, fp) ==
  LET \* for arg in exprs: self.walk_expr(arg)
      RECURSIVE Each(_, _)
      Each(exprs, acc) ==
        IF exprs = <<>> THEN acc
        ELSE Each(Tail(exprs), WalkExpr(Head(exprs), contract_name, acc))
      \* keyword_args.values()
      Values(kwargs) == [i \in 1..Len(kwargs) |-> kwargs[i].value]
      \* if e: self.walk_expr(e)
      IfSet(e, acc) == IF e.kind = "None" THEN acc ELSE WalkExpr(e, contract_name, acc)
      \* the calls and the recursion flag after a call of this name
      Called(call_name, acc) ==
        [acc EXCEPT !.calls = @ \cup {call_name},
                    !.has_recursion = @ \/ call_name = contract_name]
      Has(subj, cap, acc) ==
        [acc EXCEPT !.capability_checks =
                      @ \cup {subj \o <<" ","h","a","s"," ">> \o cap}]
  IN
  CASE expr.kind = "Identifier" -> [fp EXCEPT !.reads = @ \cup {expr.name}]
    [] expr.kind = "FieldAccess" ->
         [fp EXCEPT !.reads = @ \cup {ExtractDottedPath(expr)}]
    [] expr.kind = "FunctionCall" ->
         Each(Values(expr.keyword_args),
              Each(expr.arguments,
                   IfSet(expr.function,
                         IF ExtractCallName(expr.function) # <<>>
                         THEN Called(ExtractCallName(expr.function), fp)
                         ELSE fp)))
    [] expr.kind = "MethodCall" ->
         Each(Values(expr.keyword_args),
              Each(expr.arguments,
                   IfSet(expr.object,
                         [fp EXCEPT !.calls = @ \cup
                            {IF ExtractCallName(expr.object) # <<>>
                             THEN ExtractCallName(expr.object) \o <<".">> \o expr.method
                             ELSE expr.method}])))
    [] expr.kind = "BinaryOp" ->
         IfSet(expr.right,
               IfSet(expr.left,
                     IF expr.op # "" THEN [fp EXCEPT !.operators = Append(@, expr.op)]
                     ELSE fp))
    [] expr.kind = "UnaryOp" ->
         IfSet(expr.operand,
               IF expr.op # "" THEN [fp EXCEPT !.operators = Append(@, expr.op)]
               ELSE fp)
    [] expr.kind = "OldExpr" ->
         IF expr.inner.kind = "None" THEN fp
         ELSE WalkExpr(expr.inner, contract_name,
                       [fp EXCEPT !.old_references =
                                    @ \cup {ExtractDottedPathFromExpr(expr.inner)}])
    [] expr.kind = "HasExpr" ->
         IF expr.subject.kind # "None" /\ expr.capability.kind # "None"
         THEN Has(ExtractDottedPathFromExpr(expr.subject),
                  ExtractDottedPathFromExpr(expr.capability), fp)
         ELSE fp
    [] expr.kind = "ListLiteral" -> Each(expr.elements, fp)
    [] expr.kind = "NumberLiteral" ->
         [fp EXCEPT !.literals = Append(@, Str(expr.value, FALSE))]
    [] expr.kind = "StringLiteral" ->
         [fp EXCEPT !.literals = Append(@, Repr(expr.value))]
    [] expr.kind = "BoolLiteral" ->
         [fp EXCEPT !.literals = Append(@, Str(expr.value, TRUE))]
    [] OTHER -> fp

\* _ASTWalker.walk_statements, with walk_statement for each statement
RECURSIVE WalkStatements(_, _, _, _)
WalkStatements(stmts, depth, contract_name, fp) ==
  LET IfSet(e, acc) == IF e.kind = "None" THEN acc ELSE WalkExpr(e, contract_name, acc)
      \* self.walk_statements(block, depth + 1)
      Nested(block, acc) == WalkStatements(block, depth + 1, contract_name, acc)
      Emitted(event_name, acc) ==
        IF event_name.kind # "None" /\ event_name.value # <<>>
        THEN [acc EXCEPT !.emitted_events = @ \cup {event_name.value}]
        ELSE acc
      Else(else_body, acc) == IF else_body # <<>> THEN Nested(else_body, acc) ELSE acc
      WalkStatement(stmt, acc) ==
        CASE stmt.kind = "Assignment" ->
               IfSet(stmt.value, [acc EXCEPT !.mutations = @ \cup {stmt.target}])
          [] stmt.kind = "ReturnStmt" ->
               IfSet(stmt.value, [acc EXCEPT !.return_count = @ + 1])
          [] stmt.kind = "EmitStmt" ->
               IF stmt.event.kind = "None" THEN acc
               ELSE WalkExpr(stmt.event, contract_name,
                             Emitted(ExtractEventName(stmt.event), acc))
          [] stmt.kind = "ExprStmt" -> IfSet(stmt.expr, acc)
          [] stmt.kind = "IfStmt" ->
               Else(stmt.else_body,
                    Nested(stmt.then_body,
                           IfSet(stmt.condition, [acc EXCEPT !.has_branching = TRUE])))
          [] stmt.kind = "ForStmt" ->
               Nested(stmt.loop_body,
                      IfSet(stmt.iterable, [acc EXCEPT !.has_looping = TRUE]))
          [] stmt.kind = "WhileStmt" ->
               Nested(stmt.loop_body,
                      IfSet(stmt.condition, [acc EXCEPT !.has_looping = TRUE]))
          [] OTHER -> acc
      RECURSIVE Loop(_, _)
      Loop(rest, acc) ==
        IF rest = <<>> THEN acc ELSE Loop(Tail(rest), WalkStatement(Head(rest), acc))
  IN
  Loop(stmts, [fp EXCEPT !.max_nesting_depth = IF depth > @ THEN depth ELSE @])

\* a fingerprint_contract that walks the conditions of the precondition
\* as well
FingerprintContractConditions(contract) ==
  LET RECURSIVE Each(_, _)
      Each(rest, fp) ==
        IF rest = <<>> THEN fp
        ELSE Each(Tail(rest), WalkExpr(Head(rest), contract.name, fp))
      Body(fp) ==
        IF contract.body.kind # "None"
        THEN WalkStatements(contract.body.statements, 0, contract.name, fp)
        ELSE fp
      OnFailure(fp) ==
        IF contract.on_failure.kind # "None"
        THEN WalkStatements(contract.on_failure.statements, 0, contract.name, fp)
        ELSE fp
  IN
  OnFailure(Body(IF contract.precondition.kind # "None"
                 THEN Each(contract.precondition.conditions, BehavioralFingerprint)
                 ELSE BehavioralFingerprint))

\* a fingerprint_contract whose walk counts the root statement list as
\* depth 1
FingerprintContractRootOne(contract) ==
  LET OnFailure(fp) ==
        IF contract.on_failure.kind # "None"
        THEN WalkStatements(contract.on_failure.statements, 1, contract.name, fp)
        ELSE fp
  IN
  OnFailure(IF contract.body.kind # "None"
            THEN WalkStatements(contract.body.statements, 1, contract.name,
                                BehavioralFingerprint)
            ELSE BehavioralFingerprint)

FingerprintContract(contract) ==
  LET OnFailure(fp) ==
        IF contract.on_failure.kind # "None"
        THEN WalkStatements(contract.on_failure.statements, 0, contract.name, fp)
        ELSE fp
  IN
  OnFailure(IF contract.body.kind # "None"
            THEN WalkStatements(contract.body.statements, 0, contract.name,
                                BehavioralFingerprint)
            ELSE BehavioralFingerprint)

\* BehavioralFingerprint.to_canonical_dict: sorted(a set) is the set itself;
\* sorted(a list) keeps how many times each element occurs and nothing of
\* their order, so it is the bag of the list
ToCanonicalDict(fp) ==
  LET Sorted(list) ==
        [x \in {list[i] : i \in 1..Len(list)} |->
           Cardinality({i \in 1..Len(list) : list[i] = x})]
  IN
  [reads |-> fp.reads, mutations |-> fp.mutations, calls |-> fp.calls,
   emitted_events |-> fp.emitted_events, old_references |-> fp.old_references,
   capability_checks |-> fp.capability_checks,
   operators |-> Sorted(fp.operators), literals |-> Sorted(fp.literals),
   has_branching |-> fp.has_branching, has_looping |-> fp.has_looping,
   has_recursion |-> fp.has_recursion, return_count |-> fp.return_count,
   max_nesting_depth |-> fp.max_nesting_depth]

-----------------------------------------------------------------------------
(* Intent verification engine: the intent hash (covenant/verify/hasher.py) *)

\* hashlib.sha256(data).hexdigest(), taken to be injective: the digest stands
\* for the data it was computed from
Sha256(data) == [sha256 |-> data]

\* a compute_intent_hash whose combined hash is made of the fingerprint hash
\* alone
ComputeIntentHashOfFingerprint(contract, intent_text, fingerprint) ==
  LET Hashed(fp) ==
        [contract_name |-> contract.name,
         intent_text |-> intent_text,
         intent_hash |-> Sha256(intent_text),
         fingerprint_hash |-> Sha256(ToCanonicalDict(fp)),
         combined_hash |-> Sha256(<<Sha256(ToCanonicalDict(fp))>>)]
  IN Hashed(IF fingerprint.kind = "None" THEN FingerprintContract(contract)
            ELSE fingerprint)

\* compute_intent_hash; json.dumps of a canonical dict is injective, and so
\* is the concatenation of two digests, which have one length
ComputeIntentHash(contract, intent_text, fingerprint) ==
  LET Hashed(fp) ==
        [contract_name |-> contract.name,
         intent_text |-> intent_text,
         intent_hash |-> Sha256(intent_text),
         fingerprint_hash |-> Sha256(ToCanonicalDict(fp)),
         combined_hash |-> Sha256(<<Sha256(intent_text), Sha256(ToCanonicalDict(fp))>>)]
  IN Hashed(IF fingerprint.kind = "None" THEN FingerprintContract(contract)
            ELSE fingerprint)

\* a verify_against that takes behavior_changed from the combined hashes
VerifyAgainstCombined(self, other) ==
  [kind |-> "IntentHashComparison",
   contract_name |-> self.contract_name,
   intent_changed |-> self.intent_hash # other.intent_hash,
   behavior_changed |-> self.combined_hash # other.combined_hash,
   combined_match |-> self.combined_hash = other.combined_hash,
   old_hash |-> other,
   new_hash |-> self]

\* IntentHash.verify_against
VerifyAgainst(self, other) ==
  [kind |-> "IntentHashComparison",
   contract_name |-> self.contract_name,
   intent_changed |-> self.intent_hash # other.intent_hash,
   behavior_changed |-> self.fingerprint_hash # other.fingerprint_hash,
   combined_match |-> self.combined_hash = other.combined_hash,
   old_hash |-> other,
   new_hash |-> self]

\* IntentHashComparison.is_drift
IsDrift(self) == self.behavior_changed /\ ~self.intent_changed

\* IntentHashComparison.is_consistent
IsConsistent(self) ==
  self.combined_match \/ (self.intent_changed /\ self.behavior_changed)

-----------------------------------------------------------------------------
(* Intent verification engine: the checker (covenant/verify/checker.py).    *)
(* A loop over a Python set meets its elements in an order the language     *)
(* does not fix, so verify_contract and verify_program are modelled by the  *)
(* set of the lists of findings they can return.                            *)

\* a root that is the whole path
RootWhole(path) == path

\* path.split(".")[0]
Root(path) ==
  IF \E i \in 1..Len(path) : path[i] = "."
  THEN SubSeq(path, 1, (CHOOSE i \in 1..Len(path) :
                          /\ path[i] = "."
                          /\ \A j \in 1..(i - 1) : path[j] # ".") - 1)
  ELSE path

\* s.startswith(prefix + ".")
StartsWithDotted(s, prefix) ==
  /\ Len(s) >= Len(prefix) + 1
  /\ SubSeq(s, 1, Len(prefix) + 1) = prefix \o <<".">>

\* _extract_declared_modifies, _extract_declared_reads: the targets of the
\* declarations of this kind
ExtractDeclaredTargets(effects, kind) ==
  IF effects.kind = "None" THEN {}
  ELSE UNION {{decl.targets[i] : i \in 1..Len(decl.targets)} :
                decl \in {effects.declarations[k] :
                            k \in {k \in 1..Len(effects.declarations) :
                                     effects.declarations[k].kind = kind}}}

ExtractDeclaredEmits(effects) ==
  IF effects.kind = "None" THEN {}
  ELSE {effects.declarations[k].event_type :
          k \in {k \in 1..Len(effects.declarations) :
                   effects.declarations[k].kind = "EmitsEffect"}}

HasTouchesNothingElse(effects) ==
  IF effects.kind = "None" THEN FALSE
  ELSE \E k \in 1..Len(effects.declarations) :
         effects.declarations[k].kind = "TouchesNothingElse"

\* an _is_covered_by whose prefix test leaves out the "."
IsCoveredByPrefix(actual, declared) ==
  \/ actual \in declared
  \/ \E d \in declared : Len(actual) >= Len(d) /\ SubSeq(actual, 1, Len(d)) = d
  \/ ~\E i \in 1..Len(actual) : actual[i] = "."

\* an _is_covered_by without the rule that a declared path covers the
\* paths below it
IsCoveredByExact(actual, declared) ==
  \/ actual \in declared
  \/ ~\E i \in 1..Len(actual) : actual[i] = "."

IsCoveredBy(actual, declared) ==
  \/ actual \in declared
  \/ \E d \in declared : StartsWithDotted(actual, d)
  \/ ~(\E i \in 1..Len(actual) : actual[i] = ".")

\* an _is_mutation_covered that lets names without a "." pass, as
\* _is_covered_by does
IsMutationCoveredDotless(ref, mutations) ==
  \/ ref \in mutations
  \/ \E m \in mutations : StartsWithDotted(ref, m) \/ StartsWithDotted(m, ref)
  \/ ~\E i \in 1..Len(ref) : ref[i] = "."

IsMutationCovered(ref, mutations) ==
  \/ ref \in mutations
  \/ \E m \in mutations : StartsWithDotted(ref, m) \/ StartsWithDotted(m, ref)

IsObservedIn(declared, actual) ==
  \/ declared \in actual
  \/ \E a \in actual : StartsWithDotted(a, declared) \/ StartsWithDotted(declared, a)

\* a _fingerprint_expressions that stops after the first expression
FingerprintExpressionsFirst(exprs) ==
  IF exprs = <<>> THEN BehavioralFingerprint
  ELSE WalkExpr(Head(exprs), <<>>, BehavioralFingerprint)

FingerprintExpressions(exprs) ==
  LET RECURSIVE Each(_, _)
      Each(rest, fp) ==
        IF rest = <<>> THEN fp ELSE Each(Tail(rest), WalkExpr(Head(rest), <<>>, fp))
  IN Each(exprs, BehavioralFingerprint)

\* verify_contract: the lists of findings it can return.  The message of a
\* finding is the sequence of the values its text is formatted with;
\* declared_capabilities is None or [kind |-> "list", items |-> the list].
VerifyContract(contract, fingerprint, file, declared_capabilities, risk_level) ==
  LET Add(severity, code, message) ==
        [severity |-> severity, code |-> code, message |-> message,
         contract_name |-> contract.name, file |-> file, line |-> contract.loc.line]
      \* the orders in which a loop over a set can yield these findings
      Orders(S) ==
        {order \in [1..Cardinality(S) -> S] :
           \A x \in S : \E i \in DOMAIN order : order[i] = x}
      IsUpper(ch) ==
        ch \in {"A","B","C","D","E","F","G","H","I","J","K","L","M",
                "N","O","P","Q","R","S","T","U","V","W","X","Y","Z"}
      sev == IF risk_level \in {"HIGH", "CRITICAL"} THEN "ERROR" ELSE "WARNING"
      declared_modifies == ExtractDeclaredTargets(contract.effects, "ModifiesEffect")
      declared_reads == ExtractDeclaredTargets(contract.effects, "ReadsEffect")
      declared_emits == ExtractDeclaredEmits(contract.effects)
      has_touches_nothing == HasTouchesNothingElse(contract.effects)
      param_names == {contract.params[i].name : i \in 1..Len(contract.params)}
      capabilities ==
        IF declared_capabilities.kind = "None" THEN <<>> ELSE declared_capabilities.items
      cap_roots == {Root(capabilities[i]) : i \in 1..Len(capabilities)}
      structural ==
        (IF contract.precondition.kind = "None" THEN <<Add(sev, "W003", <<>>)>> ELSE <<>>)
        \o (IF contract.postcondition.kind = "None" THEN <<Add(sev, "W004", <<>>)>>
            ELSE <<>>)
        \o (IF contract.effects.kind = "None" THEN <<Add(sev, "W005", <<>>)>> ELSE <<>>)
      Mutations(fp) ==
        {IF has_touches_nothing THEN Add("ERROR", "E002", <<mutation>>)
         ELSE Add("WARNING", "E001", <<mutation>>) :
           mutation \in {m \in fp.mutations : ~IsCoveredBy(m, declared_modifies)}}
      Unobserved(fp) ==
        {Add("WARNING", "W001", <<declared>>) :
           declared \in {d \in declared_modifies : ~IsObservedIn(d, fp.mutations)}}
      Events(fp) ==
        {Add(IF has_touches_nothing THEN "ERROR" ELSE "WARNING", "E005", <<event>>) :
           event \in fp.emitted_events \ declared_emits}
      Unemitted(fp) ==
        {Add("WARNING", "W002", <<declared_event>>) :
           declared_event \in declared_emits \ fp.emitted_events}
      allowed_call_prefixes ==
        {Root(m) : m \in declared_modifies} \cup {Root(r) : r \in declared_reads}
          \cup param_names \cup cap_roots
      \* the test on the local reads that ends the loop body can only repeat
      \* the test on the mutations before it
      Calls(fp) ==
        IF has_touches_nothing
        THEN {Add("ERROR", "E003", <<call>>) :
                call \in {c \in fp.calls :
                            /\ Root(c) \notin allowed_call_prefixes
                            /\ ~(Root(c) # <<>> /\ IsUpper(Root(c)[1]))
                            /\ Root(c) \notin fp.mutations}}
        ELSE {}
      body_roots(fp) == {Root(r) : r \in fp.reads} \cup {Root(m) : m \in fp.mutations}
      Irrelevant(fp) ==
        IF contract.precondition.kind # "None"
        THEN {Add("WARNING", "W006", <<read>>) :
                read \in
                  {r \in FingerprintExpressions(
                           contract.precondition.conditions).reads :
                     /\ ~(Root(r) # <<>> /\ IsUpper(Root(r)[1]))
                     /\ Root(r) \notin param_names
                     /\ Root(r) \notin body_roots(fp)}}
        ELSE {}
      Unmodified(fp) ==
        IF contract.postcondition.kind # "None"
        THEN {Add("WARNING", "W007", <<old_ref>>) :
                old_ref \in
                  {o \in FingerprintExpressions(
                           contract.postcondition.conditions).old_references :
                     ~IsMutationCovered(o, fp.mutations)}}
        ELSE {}
      \* check.split(" has "): the places where " has " stands in the text
      HasAt(check) ==
        {i \in 1..(Len(check) - 4) : SubSeq(check, i, i + 4) = <<" ","h","a","s"," ">>}
      \* parts[1] when len(parts) == 2
      cap_path(check) ==
        SubSeq(check, (CHOOSE i \in HasAt(check) : TRUE) + 5, Len(check))
      \* the checks W008 is reported for: two checks of one capability give
      \* two findings with one text
      Beyond(fp) ==
        IF capabilities # <<>>
        THEN {c \in fp.capability_checks :
                /\ Cardinality(HasAt(c)) = 1
                /\ Root(cap_path(c)) \notin cap_roots
                /\ Root(cap_path(c)) \notin param_names}
        ELSE {}
      Scope(checks) ==
        [i \in DOMAIN checks |->
           Add("WARNING", "W008", <<cap_path(checks[i])>> \o capabilities)]
      informational(fp) ==
        (IF fp.has_recursion THEN <<Add("INFO", "I001", <<>>)>> ELSE <<>>)
        \o (IF fp.max_nesting_depth >= 4
            THEN <<Add("INFO", "I002", <<Str([int |-> fp.max_nesting_depth], FALSE)>>)>>
            ELSE <<>>)
      Results(fp) ==
        {structural \o e1 \o w1 \o e5 \o w2 \o e3 \o w6 \o w7 \o Scope(w8)
             \o informational(fp) :
           e1 \in Orders(Mutations(fp)), w1 \in Orders(Unobserved(fp)),
           e5 \in Orders(Events(fp)), w2 \in Orders(Unemitted(fp)),
           e3 \in Orders(Calls(fp)), w6 \in Orders(Irrelevant(fp)),
           w7 \in Orders(Unmodified(fp)), w8 \in Orders(Beyond(fp))}
  IN
  IF contract.body.kind = "None" THEN {<<Add("ERROR", "E004", <<>>)>>}
  ELSE Results(IF fingerprint.kind = "None" THEN FingerprintContract(contract)
               ELSE fingerprint)

\* a verify_program that verifies a contract without a body as one with
\* an empty body
VerifyProgramEmptyBody(prog, file) ==
  LET risk_level ==
        IF prog.header.kind # "None" /\ prog.header.risk.kind # "None"
        THEN prog.header.risk.level ELSE "LOW"
      declared_capabilities ==
        IF prog.header.kind # "None" /\ prog.header.requires.kind # "None"
        THEN [kind |-> "list", items |-> prog.header.requires.capabilities] ELSE None
      WithBody(contract) ==
        IF contract.body.kind = "None"
        THEN [contract EXCEPT !.body = [kind |-> "Body", loc |-> contract.loc,
                                        statements |-> <<>>]]
        ELSE contract
      RECURSIVE Extended(_)
      Extended(n) ==
        IF n = 0 THEN {<<>>}
        ELSE {results_so_far \o found :
                results_so_far \in Extended(n - 1),
                found \in VerifyContract(WithBody(prog.contracts[n]),
                                         FingerprintContract(prog.contracts[n]), file,
                                         declared_capabilities, risk_level)}
  IN Extended(Len(prog.contracts))

\* a verify_program that does not hand the risk level of the header on
VerifyProgramDefaultRisk(prog, file) ==
  LET declared_capabilities ==
        IF prog.header.kind # "None" /\ prog.header.requires.kind # "None"
        THEN [kind |-> "list", items |-> prog.header.requires.capabilities] ELSE None
      RECURSIVE Extended(_)
      Extended(n) ==
        IF n = 0 THEN {<<>>}
        ELSE {results_so_far \o found :
                results_so_far \in Extended(n - 1),
                found \in VerifyContract(prog.contracts[n],
                                         FingerprintContract(prog.contracts[n]), file,
                                         declared_capabilities, "LOW")}
  IN Extended(Len(prog.contracts))

\* a verify_program that stops verifying a contract at its first finding of
\* severity ERROR
VerifyProgramUntilError(prog, file) ==
  LET risk_level ==
        IF prog.header.kind # "None" /\ prog.header.risk.kind # "None"
        THEN prog.header.risk.level ELSE "LOW"
      declared_capabilities ==
        IF prog.header.kind # "None" /\ prog.header.requires.kind # "None"
        THEN [kind |-> "list", items |-> prog.header.requires.capabilities] ELSE None
      Errors(found) == {i \in 1..Len(found) : found[i].severity = "ERROR"}
      UntilError(found) ==
        IF Errors(found) = {} THEN found
        ELSE SubSeq(found, 1, CHOOSE i \in Errors(found) : \A j \in Errors(found) : i <= j)
      RECURSIVE Extended(_)
      Extended(n) ==
        IF n = 0 THEN {<<>>}
        ELSE {results_so_far \o UntilError(found) :
                results_so_far \in Extended(n - 1),
                found \in VerifyContract(prog.contracts[n],
                                         FingerprintContract(prog.contracts[n]), file,
                                         declared_capabilities, risk_level)}
  IN Extended(Len(prog.contracts))

\* verify_program: the lists of findings it can return
VerifyProgram(prog, file) ==
  LET risk_level ==
        IF prog.header.kind # "None" /\ prog.header.risk.kind # "None"
        THEN prog.header.risk.level ELSE "LOW"
      declared_capabilities ==
        IF prog.header.kind # "None" /\ prog.header.requires.kind # "None"
        THEN [kind |-> "list", items |-> prog.header.requires.capabilities] ELSE None
      RECURSIVE Extended(_)
      Extended(n) ==
        IF n = 0 THEN {<<>>}
        ELSE {results_so_far \o found :
                results_so_far \in Extended(n - 1),
                found \in VerifyContract(prog.contracts[n],
                                         FingerprintContract(prog.contracts[n]), file,
                                         declared_capabilities, risk_level)}
  IN Extended(Len(prog.contracts))

-----------------------------------------------------------------------------
(* Intent verification engine: the files it is run on *)

\* files of one contract f with a body of one statement, with or without an
\* on_failure block, and files of two contracts named f, the second with
\* other parameters and with every other section; with and without an intent
FingerprintSources ==
  LET Statements ==
        <<
          \* return 1 + 2\n
          <<"r","e","t","u","r","n"," ","1"," ","+"," ","2","\n">>,
          \* return 2 + 1\n
          <<"r","e","t","u","r","n"," ","2"," ","+"," ","1","\n">>,
          \* return a + b * c\n
          <<"r","e","t","u","r","n"," ","a"," ","+"," ","b"," ","*"," ","c","\n">>,
          \* return a * (b + c)\n
          <<"r","e","t","u","r","n"," ","a"," ","*"," ","(","b"," ","+"," ","c",")","\n">>,
          \* return f(a)\n
          <<"r","e","t","u","r","n"," ","f","(","a",")","\n">>,
          \* emit e\n
          <<"e","m","i","t"," ","e","\n">>,
          \* a.b = -1\n
          <<"a",".","b"," ","="," ","-","1","\n">>,
          \* if a:\n      return f(a)\n    else:\n      x = 1\n
          <<"i","f"," ","a",":","\n"," "," "," "," "," "," ","r","e","t","u","r","n",
            " ","f","(","a",")","\n"," "," "," "," ","e","l","s","e",":","\n"," "," ",
            " "," "," "," ","x"," ","="," ","1","\n">>,
          \* return g(f())\n
          <<"r","e","t","u","r","n"," ","g","(","f","(",")",")","\n">>,
          \* return f().x\n
          <<"r","e","t","u","r","n"," ","f","(",")",".","x","\n">>,
          \* return f().m()\n
          <<"r","e","t","u","r","n"," ","f","(",")",".","m","(",")","\n">>,
          \* return old(f())\n
          <<"r","e","t","u","r","n"," ","o","l","d","(","f","(",")",")","\n">>,
          \* return 1 + f()\n
          <<"r","e","t","u","r","n"," ","1"," ","+"," ","f","(",")","\n">>,
          \* return f() has b\n
          <<"r","e","t","u","r","n"," ","f","(",")"," ","h","a","s"," ","b","\n">>,
          \* return a has g()\n
          <<"r","e","t","u","r","n"," ","a"," ","h","a","s"," ","g","(",")","\n">>,
          \* emit X(a)\n
          <<"e","m","i","t"," ","X","(","a",")","\n">>,
          \* emit a.b(x)\n
          <<"e","m","i","t"," ","a",".","b","(","x",")","\n">>,
          \* emit a.b\n
          <<"e","m","i","t"," ","a",".","b","\n">>,
          \* emit f()(b)\n
          <<"e","m","i","t"," ","f","(",")","(","b",")","\n">>,
          \* x = [f()]\n
          <<"x"," ","="," ","[","f","(",")","]","\n">>,
          \* g(k: f())\n
          <<"g","(","k",":"," ","f","(",")",")","\n">>,
          \* for i in g():\n      while b:\n        return true\n
          <<"f","o","r"," ","i"," ","i","n"," ","g","(",")",":","\n"," "," "," "," ",
            " "," ","w","h","i","l","e"," ","b",":","\n"," "," "," "," "," "," "," ",
            " ","r","e","t","u","r","n"," ","t","r","u","e","\n">>,
          \* return "s"\n
          <<"r","e","t","u","r","n"," ","\"","s","\"","\n">>,
          \* return 1.5\n
          <<"r","e","t","u","r","n"," ","1",".","5","\n">>,
          \* return not a.b.c\n
          <<"r","e","t","u","r","n"," ","n","o","t"," ","a",".","b",".","c","\n">>
        >>
      \* the statements that also stand in the files of two contracts
      Paired == {Statements[i] : i \in 1..8}
      Failures ==
        {
          \* return f(a)\n
          <<"r","e","t","u","r","n"," ","f","(","a",")","\n">>,
          \* emit X(a)\n
          <<"e","m","i","t"," ","X","(","a",")","\n">>,
          \* x = 1\n
          <<"x"," ","="," ","1","\n">>
        }
      Intents == {<<>>,
        <<"i","n","t","e","n","t",":"," ","\"","t","\"","\n">>}
      OtherHead ==
        <<"c","o","n","t","r","a","c","t"," ","f","(","b",":"," ","T",","," ","c",":",
          " ","T",")"," ","-",">"," ","T","\n"," "," ","p","r","e","c","o","n","d","i",
          "t","i","o","n",":","\n"," "," "," "," ","g","(","b",")"," ",">"," ","0","\n",
          " "," ","p","o","s","t","c","o","n","d","i","t","i","o","n",":","\n"," "," ",
          " "," ","o","l","d","(","c",".","d",")"," ","=","="," ","1","\n"," "," ","e",
          "f","f","e","c","t","s",":","\n"," "," "," "," ","m","o","d","i","f","i","e",
          "s"," ","[","c",".","d","]","\n"," "," "," "," ","e","m","i","t","s"," ","X",
          "\n"," "," ","p","e","r","m","i","s","s","i","o","n","s",":","\n"," "," "," ",
          " ","g","r","a","n","t","s",":"," ","[","a","]","\n">>
      Body ==
        <<" "," ","b","o","d","y",":","\n"," "," "," "," ">>
      OnFailure ==
        <<" "," ","o","n","_","f","a","i","l","u","r","e",":","\n"," "," "," "," ">>
  IN
  {intent \o ContractHead \o Body \o s \o f :
     intent \in Intents, s \in {Statements[i] : i \in DOMAIN Statements},
     f \in {<<>>} \cup {OnFailure \o x : x \in Failures}}
  \cup
  {intent \o ContractHead \o Body \o s \o OtherHead \o Body \o t :
     intent \in Intents, s \in Paired, t \in Paired}

\* files of one contract f(a: T): every risk level with every choice of
\* precondition, postcondition, effects and body present or absent; and
\* every effects block with every body, with and without a requires line
CheckerSources ==
  LET Risks ==
        {<<>>,
          \* risk: low\n
          <<"r","i","s","k",":"," ","l","o","w","\n">>,
          \* risk: medium\n
          <<"r","i","s","k",":"," ","m","e","d","i","u","m","\n">>,
          \* risk: high\n
          <<"r","i","s","k",":"," ","h","i","g","h","\n">>,
          \* risk: critical\n
          <<"r","i","s","k",":"," ","c","r","i","t","i","c","a","l","\n">>
        }
      Requires ==
        {<<>>,
          \* requires: [net.x]\n
          <<"r","e","q","u","i","r","e","s",":"," ","[","n","e","t",".","x","]","\n">>
        }
      Pre ==
        <<" "," ","p","r","e","c","o","n","d","i","t","i","o","n",":","\n"," "," "," ",
          " ","a"," ",">"," ","0","\n">>
      Post ==
        <<" "," ","p","o","s","t","c","o","n","d","i","t","i","o","n",":","\n"," "," ",
          " "," ","a"," ",">"," ","0","\n">>
      Modifies ==
        <<" "," ","e","f","f","e","c","t","s",":","\n"," "," "," "," ","m","o","d","i",
          "f","i","e","s"," ","[","a","]","\n">>
      Assigns ==
        <<" "," ","b","o","d","y",":","\n"," "," "," "," ","a"," ","="," ","1","\n">>
      Effects ==
        {<<>>,
          \*   effects:\n    modifies [a.b]\n
          <<" "," ","e","f","f","e","c","t","s",":","\n"," "," "," "," ","m","o","d",
            "i","f","i","e","s"," ","[","a",".","b","]","\n">>,
          \*   effects:\n    modifies [a.b]\n    touches_nothing_else\n
          <<" "," ","e","f","f","e","c","t","s",":","\n"," "," "," "," ","m","o","d",
            "i","f","i","e","s"," ","[","a",".","b","]","\n"," "," "," "," ","t","o",
            "u","c","h","e","s","_","n","o","t","h","i","n","g","_","e","l","s","e","\n">>,
          \*   effects:\n    modifies [s]\n    reads [r.q]\n    emits X\n    touches_not
          \* hing_else\n
          <<" "," ","e","f","f","e","c","t","s",":","\n"," "," "," "," ","m","o","d",
            "i","f","i","e","s"," ","[","s","]","\n"," "," "," "," ","r","e","a","d",
            "s"," ","[","r",".","q","]","\n"," "," "," "," ","e","m","i","t","s"," ",
            "X","\n"," "," "," "," ","t","o","u","c","h","e","s","_","n","o","t","h",
            "i","n","g","_","e","l","s","e","\n">>,
          \*   effects:\n    touches_nothing_else\n
          <<" "," ","e","f","f","e","c","t","s",":","\n"," "," "," "," ","t","o","u",
            "c","h","e","s","_","n","o","t","h","i","n","g","_","e","l","s","e","\n">>,
          \*   effects:\n    modifies [a, s.t]\n
          <<" "," ","e","f","f","e","c","t","s",":","\n"," "," "," "," ","m","o","d",
            "i","f","i","e","s"," ","[","a",","," ","s",".","t","]","\n">>
        }
      Body ==
        <<" "," ","b","o","d","y",":","\n"," "," "," "," ">>
      Bodies ==
        {
          \* a.b = 1\n
          <<"a",".","b"," ","="," ","1","\n">>,
          \* a.b.c = 1\n
          <<"a",".","b",".","c"," ","="," ","1","\n">>,
          \* a.bc = 1\n
          <<"a",".","b","c"," ","="," ","1","\n">>,
          \* x = 1\n
          <<"x"," ","="," ","1","\n">>,
          \* s.t = 1\n    ab.c = 2\n
          <<"s",".","t"," ","="," ","1","\n"," "," "," "," ","a","b",".","c"," ","=",
            " ","2","\n">>,
          \* a.f()\n
          <<"a",".","f","(",")","\n">>,
          \* s.f()\n    r.g()\n
          <<"s",".","f","(",")","\n"," "," "," "," ","r",".","g","(",")","\n">>,
          \* net.h()\n
          <<"n","e","t",".","h","(",")","\n">>,
          \* A.b()\n
          <<"A",".","b","(",")","\n">>,
          \* x = 1\n    x()\n
          <<"x"," ","="," ","1","\n"," "," "," "," ","x","(",")","\n">>,
          \* x.y = 1\n    x.f()\n
          <<"x",".","y"," ","="," ","1","\n"," "," "," "," ","x",".","f","(",")","\n">>,
          \* h()\n    g.h()\n
          <<"h","(",")","\n"," "," "," "," ","g",".","h","(",")","\n">>,
          \* emit X(a)\n    emit B(a)\n
          <<"e","m","i","t"," ","X","(","a",")","\n"," "," "," "," ","e","m","i","t",
            " ","B","(","a",")","\n">>,
          \* f(a)\n
          <<"f","(","a",")","\n">>,
          \* g(a)(b)\n
          <<"g","(","a",")","(","b",")","\n">>
        }
  IN
  {risk \o ContractHead \o pre \o post \o effects \o body :
     risk \in Risks, pre \in {<<>>, Pre}, post \in {<<>>, Post},
     effects \in {<<>>, Modifies}, body \in {<<>>, Assigns}}
  \cup
  {requires \o ContractHead \o effects \o Body \o body :
     requires \in Requires, effects \in Effects, body \in Bodies}

-----------------------------------------------------------------------------
(* Intent verification engine: the files the rules are checked on *)

\* files of one contract f(a: T): preconditions with bodies that use or do
\* not use what they read; postconditions with old(...) with bodies that
\* assign or do not assign it; capability checks under three requires
\* lines; bodies nested up to four deep; and bodies that set off several
\* rules, with every choice of risk, requires, precondition, postcondition
\* and effects
RuleSources ==
  LET Preconditions ==
        {
          \* u > 0\n
          <<"u"," ",">"," ","0","\n">>,
          \* a > 0\n
          <<"a"," ",">"," ","0","\n">>,
          \* x.y > 0\n
          <<"x",".","y"," ",">"," ","0","\n">>,
          \* T.k > 0\n
          <<"T",".","k"," ",">"," ","0","\n">>,
          \* u > 0\n    u < 9\n
          <<"u"," ",">"," ","0","\n"," "," "," "," ","u"," ","<"," ","9","\n">>,
          \* u.v > w\n
          <<"u",".","v"," ",">"," ","w","\n">>,
          \* g(b)\n
          <<"g","(","b",")","\n">>,
          \* u has z\n
          <<"u"," ","h","a","s"," ","z","\n">>,
          \* f().q > 0\n
          <<"f","(",")",".","q"," ",">"," ","0","\n">>,
          \* a > 0\n    w > 0\n
          <<"a"," ",">"," ","0","\n"," "," "," "," ","w"," ",">"," ","0","\n">>
        }
      Read ==
        {
          \* return a\n
          <<"r","e","t","u","r","n"," ","a","\n">>,
          \* return x\n
          <<"r","e","t","u","r","n"," ","x","\n">>,
          \* x.z = 1\n
          <<"x",".","z"," ","="," ","1","\n">>,
          \* return u.k\n
          <<"r","e","t","u","r","n"," ","u",".","k","\n">>,
          \* u = 1\n
          <<"u"," ","="," ","1","\n">>,
          \* return 1\n
          <<"r","e","t","u","r","n"," ","1","\n">>
        }
      Postconditions ==
        {
          \* old(c.d) == 1\n
          <<"o","l","d","(","c",".","d",")"," ","=","="," ","1","\n">>,
          \* old(x) == 1\n
          <<"o","l","d","(","x",")"," ","=","="," ","1","\n">>,
          \* old(c) == 1\n
          <<"o","l","d","(","c",")"," ","=","="," ","1","\n">>,
          \* old(c.d) == old(x)\n
          <<"o","l","d","(","c",".","d",")"," ","=","="," ","o","l","d","(","x",")","\n">>
        }
      Assigned ==
        {
          \* c.d = 1\n
          <<"c",".","d"," ","="," ","1","\n">>,
          \* c = 1\n
          <<"c"," ","="," ","1","\n">>,
          \* c.d.e = 1\n
          <<"c",".","d",".","e"," ","="," ","1","\n">>,
          \* c.de = 1\n
          <<"c",".","d","e"," ","="," ","1","\n">>,
          \* x = 1\n
          <<"x"," ","="," ","1","\n">>,
          \* return 1\n
          <<"r","e","t","u","r","n"," ","1","\n">>,
          \* cd = 1\n
          <<"c","d"," ","="," ","1","\n">>
        }
      Requires ==
        {<<>>,
          \* requires: [net.x]\n
          <<"r","e","q","u","i","r","e","s",":"," ","[","n","e","t",".","x","]","\n">>,
          \* requires: [net.x, db]\n
          <<"r","e","q","u","i","r","e","s",":"," ","[","n","e","t",".","x",","," ","d",
            "b","]","\n">>
        }
      Checks ==
        {
          \* return a has net.y\n
          <<"r","e","t","u","r","n"," ","a"," ","h","a","s"," ","n","e","t",".","y","\n">>,
          \* return a has db.w\n
          <<"r","e","t","u","r","n"," ","a"," ","h","a","s"," ","d","b",".","w","\n">>,
          \* return a has a\n
          <<"r","e","t","u","r","n"," ","a"," ","h","a","s"," ","a","\n">>,
          \* return a has b\n
          <<"r","e","t","u","r","n"," ","a"," ","h","a","s"," ","b","\n">>,
          \* return s.t has net\n
          <<"r","e","t","u","r","n"," ","s",".","t"," ","h","a","s"," ","n","e","t","\n">>,
          \* if u has v:\n      return a has db\n
          <<"i","f"," ","u"," ","h","a","s"," ","v",":","\n"," "," "," "," "," "," ",
            "r","e","t","u","r","n"," ","a"," ","h","a","s"," ","d","b","\n">>,
          \* if u has db:\n      return a has db\n
          <<"i","f"," ","u"," ","h","a","s"," ","d","b",":","\n"," "," "," "," "," ",
            " ","r","e","t","u","r","n"," ","a"," ","h","a","s"," ","d","b","\n">>
        }
      Nested ==
        {
          \* if a:\n      return a\n
          <<"i","f"," ","a",":","\n"," "," "," "," "," "," ","r","e","t","u","r","n",
            " ","a","\n">>,
          \* if a:\n      if a:\n        return a\n
          <<"i","f"," ","a",":","\n"," "," "," "," "," "," ","i","f"," ","a",":","\n",
            " "," "," "," "," "," "," "," ","r","e","t","u","r","n"," ","a","\n">>,
          \* if a:\n      if a:\n        if a:\n          return a\n
          <<"i","f"," ","a",":","\n"," "," "," "," "," "," ","i","f"," ","a",":","\n",
            " "," "," "," "," "," "," "," ","i","f"," ","a",":","\n"," "," "," "," ",
            " "," "," "," "," "," ","r","e","t","u","r","n"," ","a","\n">>,
          \* for i in a:\n      while a:\n        if b:\n          return a\n
          <<"f","o","r"," ","i"," ","i","n"," ","a",":","\n"," "," "," "," "," "," ",
            "w","h","i","l","e"," ","a",":","\n"," "," "," "," "," "," "," "," ","i",
            "f"," ","b",":","\n"," "," "," "," "," "," "," "," "," "," ","r","e","t",
            "u","r","n"," ","a","\n">>,
          \* if a:\n      if a:\n        x = 1\n      else:\n        x = 2\n
          <<"i","f"," ","a",":","\n"," "," "," "," "," "," ","i","f"," ","a",":","\n",
            " "," "," "," "," "," "," "," ","x"," ","="," ","1","\n"," "," "," "," ",
            " "," ","e","l","s","e",":","\n"," "," "," "," "," "," "," "," ","x"," ",
            "="," ","2","\n">>,
          \* if a:\n      x = 1\n    else:\n      if b:\n        x = 2\n
          <<"i","f"," ","a",":","\n"," "," "," "," "," "," ","x"," ","="," ","1","\n",
            " "," "," "," ","e","l","s","e",":","\n"," "," "," "," "," "," ","i","f",
            " ","b",":","\n"," "," "," "," "," "," "," "," ","x"," ","="," ","2","\n">>,
          \* x = 1\n  on_failure:\n    while a:\n      while a:\n        x = 2\n
          <<"x"," ","="," ","1","\n"," "," ","o","n","_","f","a","i","l","u","r","e",
            ":","\n"," "," "," "," ","w","h","i","l","e"," ","a",":","\n"," "," "," ",
            " "," "," ","w","h","i","l","e"," ","a",":","\n"," "," "," "," "," "," ",
            " "," ","x"," ","="," ","2","\n">>,
          \* if a:\n      if a:\n        if a:\n          if a:\n            return a\n
          <<"i","f"," ","a",":","\n"," "," "," "," "," "," ","i","f"," ","a",":","\n",
            " "," "," "," "," "," "," "," ","i","f"," ","a",":","\n"," "," "," "," ",
            " "," "," "," "," "," ","i","f"," ","a",":","\n"," "," "," "," "," "," ",
            " "," "," "," "," "," ","r","e","t","u","r","n"," ","a","\n">>,
          \* while a:\n      for i in a:\n        if b:\n          while b:\n           
          \*  x = 1\n
          <<"w","h","i","l","e"," ","a",":","\n"," "," "," "," "," "," ","f","o","r",
            " ","i"," ","i","n"," ","a",":","\n"," "," "," "," "," "," "," "," ","i",
            "f"," ","b",":","\n"," "," "," "," "," "," "," "," "," "," ","w","h","i",
            "l","e"," ","b",":","\n"," "," "," "," "," "," "," "," "," "," "," "," ",
            "x"," ","="," ","1","\n">>,
          \* if a:\n      x = 1\n    else:\n      if b:\n        x = 2\n      else:\n   
          \*      if c:\n          x = 3\n        else:\n          if d:\n            x 
          \* = 4\n
          <<"i","f"," ","a",":","\n"," "," "," "," "," "," ","x"," ","="," ","1","\n",
            " "," "," "," ","e","l","s","e",":","\n"," "," "," "," "," "," ","i","f",
            " ","b",":","\n"," "," "," "," "," "," "," "," ","x"," ","="," ","2","\n",
            " "," "," "," "," "," ","e","l","s","e",":","\n"," "," "," "," "," "," ",
            " "," ","i","f"," ","c",":","\n"," "," "," "," "," "," "," "," "," "," ",
            "x"," ","="," ","3","\n"," "," "," "," "," "," "," "," ","e","l","s","e",
            ":","\n"," "," "," "," "," "," "," "," "," "," ","i","f"," ","d",":","\n",
            " "," "," "," "," "," "," "," "," "," "," "," ","x"," ","="," ","4","\n">>
        }
      Mixed ==
        {
          \* a.b = 1\n    h()\n    emit B(a)\n    return a has db\n
          <<"a",".","b"," ","="," ","1","\n"," "," "," "," ","h","(",")","\n"," "," ",
            " "," ","e","m","i","t"," ","B","(","a",")","\n"," "," "," "," ","r","e",
            "t","u","r","n"," ","a"," ","h","a","s"," ","d","b","\n">>,
          \* f(a)\n
          <<"f","(","a",")","\n">>,
          \* s.t = 1\n    emit X(a)\n    a.g()\n
          <<"s",".","t"," ","="," ","1","\n"," "," "," "," ","e","m","i","t"," ","X",
            "(","a",")","\n"," "," "," "," ","a",".","g","(",")","\n">>
        }
      Precondition ==
        <<" "," ","p","r","e","c","o","n","d","i","t","i","o","n",":","\n"," "," "," ",
          " ">>
      Postcondition ==
        <<" "," ","p","o","s","t","c","o","n","d","i","t","i","o","n",":","\n"," "," ",
          " "," ">>
      Body ==
        <<" "," ","b","o","d","y",":","\n"," "," "," "," ">>
  IN
  {ContractHead \o Precondition \o pre \o Body \o body :
     pre \in Preconditions, body \in Read}
  \cup
  {ContractHead \o Postcondition \o post \o Body \o body :
     post \in Postconditions, body \in Assigned}
  \cup
  {requires \o ContractHead \o Body \o body : requires \in Requires, body \in Checks}
  \cup
  {ContractHead \o Body \o body : body \in Nested}
  \cup
  {risk \o requires \o ContractHead \o pre \o post \o effects \o Body \o body :
     risk \in {<<>>,
            \* risk: high\n
            <<"r","i","s","k",":"," ","h","i","g","h","\n">>
          },
     requires \in {<<>>,
            \* requires: [net.x]\n
            <<"r","e","q","u","i","r","e","s",":"," ","[","n","e","t",".","x","]","\n">>
          },
     pre \in {<<>>,
            \*   precondition:\n    u > 0\n
            <<" "," ","p","r","e","c","o","n","d","i","t","i","o","n",":","\n"," "," ",
              " "," ","u"," ",">"," ","0","\n">>
          },
     post \in {<<>>,
            \*   postcondition:\n    old(x) == 1\n
            <<" "," ","p","o","s","t","c","o","n","d","i","t","i","o","n",":","\n"," ",
              " "," "," ","o","l","d","(","x",")"," ","=","="," ","1","\n">>
          },
     effects \in {<<>>,
            \*   effects:\n    modifies [s]\n    emits X\n    touches_nothing_else\n
            <<" "," ","e","f","f","e","c","t","s",":","\n"," "," "," "," ","m","o","d",
              "i","f","i","e","s"," ","[","s","]","\n"," "," "," "," ","e","m","i","t",
              "s"," ","X","\n"," "," "," "," ","t","o","u","c","h","e","s","_","n","o",
              "t","h","i","n","g","_","e","l","s","e","\n">>
          },
     body \in Mixed}

StoredIntents == {<<>>, <<"t">>, <<"u">>}

InitVerify ==
  /\ source \in FingerprintSources \cup CheckerSources \cup RuleSources
  /\ pos = 0
  /\ line = 1
  /\ column = 1
  /\ tokens = <<>>
  /\ indent_stack = <<0>>
  /\ ppos = 0
  /\ program = EmptyProgram
  /\ phase = "tokenize"
  /\ error = NoErr
  /\ results = <<>>
  /\ fingerprints = <<>>
  /\ hashes = <<>>
  /\ comparison = None

\* cli._cmd_check: results = verify_program(program, file=filename)
CmdCheck ==
  /\ phase = "parsed"
  /\ results' \in VerifyProgram(program, FileName)
  /\ phase' = "verified"
  /\ UNCHANGED <<source, pos, line, column, tokens, indent_stack, ppos, program, error>>
  /\ UNCHANGED <<fingerprints, hashes, comparison>>

\* the loop over program.contracts that ends cli._cmd_check and makes
\* cli._cmd_fingerprint: fingerprint_contract, then compute_intent_hash
HashContracts ==
  LET intent_text ==
        IF program.header.kind # "None" /\ program.header.intent.kind # "None"
        THEN program.header.intent.text ELSE <<>>
  IN
  /\ phase \in {"parsed", "verified"}
  /\ \E fps \in {[i \in 1..Len(program.contracts) |->
                    FingerprintContract(program.contracts[i])]} :
       /\ fingerprints' = fps
       /\ hashes' = [i \in 1..Len(program.contracts) |->
                       ComputeIntentHash(program.contracts[i], intent_text, fps[i])]
  /\ phase' = "hashed"
  /\ UNCHANGED <<source, pos, line, column, tokens, indent_stack, ppos, program, error>>
  /\ UNCHANGED <<results, comparison>>

\* new.verify_against(old): the hash of a contract of the file against a
\* hash computed earlier, of this or another contract under a stored intent
CompareHashes ==
  /\ phase = "hashed"
  /\ \E i \in 1..Len(hashes), j \in 1..Len(hashes), text \in StoredIntents :
       comparison' =
         VerifyAgainst(hashes[i],
                       ComputeIntentHash(program.contracts[j], text, fingerprints[j]))
  /\ phase' = "compared"
  /\ UNCHANGED <<source, pos, line, column, tokens, indent_stack, ppos, program, error>>
  /\ UNCHANGED <<results, fingerprints, hashes>>

NextVerify ==
  \/ ScanLine
  \/ TokenizeReturn
  \/ ParseHeader
  \/ ParseTopLevelItem
  \/ ParseReturn
  \/ CmdCheck
  \/ HashContracts
  \/ CompareHashes

SpecVerify == InitVerify /\ [][NextVerify]_vars

-----------------------------------------------------------------------------
(* C12: the fingerprint is a function of name, body and on_failure          *)

\* the contract with its name, body and on_failure and nothing else
Bare(contract) ==
  [kind |-> "ContractDef", loc |-> None, name |-> contract.name,
   params |-> <<>>, return_type |-> None,
   precondition |-> None, postcondition |-> None,
   effects |-> None, permissions |-> None,
   body |-> contract.body, on_failure |-> contract.on_failure]

\* the contract has a section other than body and on_failure
HasOtherSection(contract) ==
  \/ contract.precondition.kind # "None"
  \/ contract.postcondition.kind # "None"
  \/ contract.effects.kind # "None"
  \/ contract.permissions.kind # "None"

\* C12: the fingerprint of every contract is the fingerprint of the contract
\* that has its name, body and on_failure and no parameters, return type,
\* precondition, postcondition, effects or permissions; so two contracts
\* that agree on name, body and on_failure have fingerprints equal in every
\* field, whatever their other parts are
C12_FingerprintOnlyNameBodyOnFailure ==
  phase \in {"hashed", "compared"} =>
    \A i \in 1..Len(program.contracts) :
      fingerprints[i] = FingerprintContract(Bare(program.contracts[i]))

\* two contracts f with one body text, the second with other parameters, a
\* precondition that calls g, a postcondition, effects and permissions:
\* their fingerprints are equal and show the call of the body
C12_Witness ==
  /\ phase = "hashed"
  /\ Len(program.contracts) = 2
  /\ program.contracts[1].name = program.contracts[2].name
  /\ ~HasOtherSection(program.contracts[1])
  /\ HasOtherSection(program.contracts[2])
  /\ program.contracts[1].params # program.contracts[2].params
  /\ fingerprints[1] = fingerprints[2]
  /\ fingerprints[2].calls = {<<"f">>}
  /\ fingerprints[2].has_recursion

-----------------------------------------------------------------------------
(* C13: every call of the body and of on_failure is in calls                *)

\* the expressions directly below an expression node
SubExpressions(expr) ==
  LET Set(e) == IF e.kind = "None" THEN <<>> ELSE <<e>>
      Values(kwargs) == [i \in 1..Len(kwargs) |-> kwargs[i].value]
  IN
  CASE expr.kind = "FieldAccess" -> Set(expr.object)
    [] expr.kind = "FunctionCall" ->
         Set(expr.function) \o expr.arguments \o Values(expr.keyword_args)
    [] expr.kind = "MethodCall" ->
         Set(expr.object) \o expr.arguments \o Values(expr.keyword_args)
    [] expr.kind = "BinaryOp" -> Set(expr.left) \o Set(expr.right)
    [] expr.kind = "UnaryOp" -> Set(expr.operand)
    [] expr.kind = "OldExpr" -> Set(expr.inner)
    [] expr.kind = "HasExpr" -> Set(expr.subject) \o Set(expr.capability)
    [] expr.kind = "ListLiteral" -> expr.elements
    [] OTHER -> <<>>

\* the expression nodes of an expression, itself included
RECURSIVE ExprNodes(_)
ExprNodes(expr) ==
  LET below == SubExpressions(expr) IN
  {expr} \cup UNION {ExprNodes(below[i]) : i \in 1..Len(below)}

\* the expression nodes of a list of statements, nested blocks included
RECURSIVE StatementNodes(_)
StatementNodes(stmts) ==
  LET Of(e) == IF e.kind = "None" THEN {} ELSE ExprNodes(e)
      Nodes(stmt) ==
        CASE stmt.kind = "Assignment" -> Of(stmt.value)
          [] stmt.kind = "ReturnStmt" -> Of(stmt.value)
          [] stmt.kind = "EmitStmt" -> Of(stmt.event)
          [] stmt.kind = "ExprStmt" -> Of(stmt.expr)
          [] stmt.kind = "IfStmt" ->
               Of(stmt.condition) \cup StatementNodes(stmt.then_body)
                 \cup StatementNodes(stmt.else_body)
          [] stmt.kind = "ForStmt" ->
               Of(stmt.iterable) \cup StatementNodes(stmt.loop_body)
          [] stmt.kind = "WhileStmt" ->
               Of(stmt.condition) \cup StatementNodes(stmt.loop_body)
          [] OTHER -> {}
  IN UNION {Nodes(stmts[i]) : i \in 1..Len(stmts)}

\* the expression nodes of the body and of on_failure of a contract
ContractNodes(contract) ==
  (IF contract.body.kind # "None" THEN StatementNodes(contract.body.statements) ELSE {})
  \cup (IF contract.on_failure.kind # "None"
        THEN StatementNodes(contract.on_failure.statements) ELSE {})

\* the callee names of the FunctionCall nodes of a contract
CalleeNames(contract) ==
  {ExtractCallName(e.function) : e \in {n \in ContractNodes(contract) : n.kind = "FunctionCall"}}

\* C13: the callee name of every FunctionCall node of the body and of
\* on_failure, at any expression depth, is in the calls of the fingerprint,
\* and has_recursion is set when one of them is the name of the contract
C13_EveryFunctionCallInCalls ==
  phase \in {"hashed", "compared"} =>
    \A i \in 1..Len(program.contracts) :
      /\ CalleeNames(program.contracts[i]) \subseteq fingerprints[i].calls
      /\ program.contracts[i].name \in CalleeNames(program.contracts[i])
           => fingerprints[i].has_recursion

-----------------------------------------------------------------------------
(* C14: the event of every emit statement is in emitted_events              *)

\* the event expressions of the emit statements of a list of statements,
\* nested blocks included
RECURSIVE EmitEvents(_)
EmitEvents(stmts) ==
  LET Events(stmt) ==
        CASE stmt.kind = "EmitStmt" ->
               IF stmt.event.kind = "None" THEN {} ELSE {stmt.event}
          [] stmt.kind = "IfStmt" ->
               EmitEvents(stmt.then_body) \cup EmitEvents(stmt.else_body)
          [] stmt.kind \in {"ForStmt", "WhileStmt"} -> EmitEvents(stmt.loop_body)
          [] OTHER -> {}
  IN UNION {Events(stmts[i]) : i \in 1..Len(stmts)}

\* the emitted event expressions of the body and of on_failure
ContractEmits(contract) ==
  (IF contract.body.kind # "None" THEN EmitEvents(contract.body.statements) ELSE {})
  \cup (IF contract.on_failure.kind # "None"
        THEN EmitEvents(contract.on_failure.statements) ELSE {})

\* the name walk_expr adds to calls for a call expression
CalledName(expr) ==
  IF expr.kind = "FunctionCall" THEN ExtractCallName(expr.function)
  ELSE IF ExtractCallName(expr.object) # <<>>
       THEN ExtractCallName(expr.object) \o <<".">> \o expr.method
       ELSE expr.method

\* C14: for every emit statement of the body and of on_failure, the name of
\* the event (the name of an Identifier; for a call, the name the call has
\* in calls) is in emitted_events, so no emit of a call is left out; and
\* the event expression is walked as an expression: what walking it alone
\* reads and calls is read and called in the fingerprint
C14_EmitEventNamed ==
  phase \in {"hashed", "compared"} =>
    \A i \in 1..Len(program.contracts) :
      \A event \in ContractEmits(program.contracts[i]) :
        /\ event.kind = "Identifier" => event.name \in fingerprints[i].emitted_events
        /\ event.kind \in {"FunctionCall", "MethodCall"}
             => CalledName(event) \in fingerprints[i].emitted_events
        /\ \E walked \in {WalkExpr(event, program.contracts[i].name,
                                   BehavioralFingerprint)} :
             /\ walked.reads \subseteq fingerprints[i].reads
             /\ walked.calls \subseteq fingerprints[i].calls

-----------------------------------------------------------------------------
(* C15: a difference of two fingerprints shows in the hashes                *)

\* C15: two contracts of a file are hashed with the same intent text; when
\* their fingerprints differ in any field, their intent hashes are equal,
\* their fingerprint hashes differ, their combined hashes differ, and
\* verify_against reports drift
C15_DriftDetected ==
  phase \in {"hashed", "compared"} =>
    \A i \in 1..Len(hashes), j \in 1..Len(hashes) :
      fingerprints[i] # fingerprints[j] =>
        /\ hashes[i].intent_hash = hashes[j].intent_hash
        /\ hashes[i].fingerprint_hash # hashes[j].fingerprint_hash
        /\ hashes[i].combined_hash # hashes[j].combined_hash
        /\ IsDrift(VerifyAgainst(hashes[i], hashes[j]))

-----------------------------------------------------------------------------
(* C16: the fields of a comparison                                          *)

\* IntentHash values whose three digests are any of two values each, as a
\* caller can build them
AnyIntentHashes ==
  [contract_name : {<<"f">>}, intent_text : {<<>>},
   intent_hash : {"x", "y"}, fingerprint_hash : {"x", "y"},
   combined_hash : {"x", "y"}]

\* the three flags of a comparison of a with b are as the claim says
FlagsAsHashes(cmp, a, b) ==
  /\ cmp.intent_changed <=> a.intent_hash # b.intent_hash
  /\ cmp.behavior_changed <=> a.fingerprint_hash # b.fingerprint_hash
  /\ cmp.combined_match <=> a.combined_hash = b.combined_hash
  /\ IsDrift(cmp) <=> (cmp.behavior_changed /\ ~cmp.intent_changed)
  /\ IsConsistent(cmp) <=>
       (cmp.combined_match \/ (cmp.intent_changed /\ cmp.behavior_changed))

\* C16: a.verify_against(b) sets intent_changed iff the intent hashes
\* differ, behavior_changed iff the fingerprint hashes differ and
\* combined_match iff the combined hashes are equal; is_drift is
\* behavior_changed and not intent_changed; is_consistent is combined_match
\* or both changed.  This holds of the comparison a run has made, of a hash
\* of the file with every hash of the file, and of hashes of any digests
C16_ComparisonFields ==
  /\ phase = "compared" =>
       FlagsAsHashes(comparison, comparison.new_hash, comparison.old_hash)
  /\ phase \in {"hashed", "compared"} =>
       \A i \in 1..Len(hashes), j \in 1..Len(hashes) :
         FlagsAsHashes(VerifyAgainst(hashes[i], hashes[j]), hashes[i], hashes[j])
  /\ \A a \in AnyIntentHashes, b \in AnyIntentHashes :
       FlagsAsHashes(VerifyAgainst(a, b), a, b)

\* a comparison of the hash of one contract with the hash of another under
\* the same intent: the behaviour changed, the intent did not
C16_Witness ==
  /\ phase = "compared"
  /\ comparison.new_hash \in {hashes[i] : i \in 1..Len(hashes)}
  /\ comparison.new_hash.intent_text = comparison.old_hash.intent_text
  /\ comparison.new_hash.fingerprint_hash # comparison.old_hash.fingerprint_hash
  /\ comparison.behavior_changed
  /\ ~comparison.intent_changed
  /\ ~comparison.combined_match
  /\ IsDrift(comparison)
  /\ ~IsConsistent(comparison)

-----------------------------------------------------------------------------
(* C17: a contract without a body                                           *)

\* the four risk levels
RiskLevels == {"LOW", "MEDIUM", "HIGH", "CRITICAL"}

\* fingerprints a caller can pass: none, or one that names a mutation, a
\* call, an event and a capability check
PassedFingerprints ==
  {None,
   [BehavioralFingerprint EXCEPT
      !.mutations = {<<"q", ".", "r">>}, !.calls = {<<"h">>},
      !.emitted_events = {<<"Y">>}, !.has_recursion = TRUE,
      !.capability_checks = {<<"q", " ", "h", "a", "s", " ", "z">>}]}

\* header capabilities a caller can pass
PassedCapabilities ==
  {None, [kind |-> "list", items |-> <<>>],
   [kind |-> "list", items |-> <<<<"n", "e", "t", ".", "x">>>>]}

\* the codes of a list of findings
Codes(found) == [i \in 1..Len(found) |-> found[i].code]

\* C17: for a contract without a body verify_contract returns one finding,
\* E004 with severity ERROR, whatever the other sections, the fingerprint,
\* the declared capabilities and the risk level are; a run of the checker
\* on a file of one such contract has this one finding
C17_NoBodyOnlyE004 ==
  /\ phase \in {"parsed", "verified"} =>
       \A i \in 1..Len(program.contracts) :
         program.contracts[i].body.kind = "None" =>
           \A fp \in PassedFingerprints, capabilities \in PassedCapabilities,
              risk \in RiskLevels :
             \A found \in VerifyContract(program.contracts[i], fp, FileName,
                                         capabilities, risk) :
               /\ Codes(found) = <<"E004">>
               /\ found[1].severity = "ERROR"
  /\ (phase = "verified" /\ Len(program.contracts) = 1
      /\ program.contracts[1].body.kind = "None") =>
       /\ Codes(results) = <<"E004">>
       /\ results[1].severity = "ERROR"
       /\ results[1].contract_name = program.contracts[1].name

\* a file of risk high whose contract has effects and no precondition,
\* postcondition or body: the run has reported E004 alone
C17_Witness ==
  /\ phase = "verified"
  /\ Len(program.contracts) = 1
  /\ program.header.kind # "None"
  /\ program.header.risk.kind # "None"
  /\ program.header.risk.level = "HIGH"
  /\ program.contracts[1].body.kind = "None"
  /\ program.contracts[1].precondition.kind = "None"
  /\ program.contracts[1].postcondition.kind = "None"
  /\ program.contracts[1].effects.kind # "None"
  /\ Codes(results) = <<"E004">>

-----------------------------------------------------------------------------
(* C18: the findings for missing sections                                   *)

\* the risk level verify_program takes from the header
HeaderRisk ==
  IF program.header.kind # "None" /\ program.header.risk.kind # "None"
  THEN program.header.risk.level ELSE "LOW"

\* the findings of a list that have this code
WithCode(found, code) == {i \in 1..Len(found) : found[i].code = code}

\* a list of findings has the code once if the section is absent and not at
\* all if it is present, with the severity the risk level asks for
SectionFinding(found, code, section, risk) ==
  /\ Cardinality(WithCode(found, code)) = (IF section.kind = "None" THEN 1 ELSE 0)
  /\ \A i \in WithCode(found, code) :
       found[i].severity = (IF risk \in {"HIGH", "CRITICAL"} THEN "ERROR" ELSE "WARNING")

\* the three findings of C18 in a list of findings of a contract
SectionFindings(found, contract, risk) ==
  /\ SectionFinding(found, "W003", contract.precondition, risk)
  /\ SectionFinding(found, "W004", contract.postcondition, risk)
  /\ SectionFinding(found, "W005", contract.effects, risk)

\* C18: for a contract with a body, W003, W004 and W005 are reported, once
\* each, exactly when the precondition, the postcondition and the effects
\* are absent, with severity ERROR at risk HIGH or CRITICAL and WARNING at
\* LOW or MEDIUM, so never with both severities: in the findings of a run
\* on a file of one contract under the risk of its header, and in what
\* verify_contract returns for the contract under each risk level
C18_SectionFindings ==
  /\ (phase = "verified" /\ Len(program.contracts) = 1
      /\ program.contracts[1].body.kind # "None") =>
       SectionFindings(results, program.contracts[1], HeaderRisk)
  /\ (phase = "verified" /\ Len(program.contracts) = 1
      /\ program.contracts[1].body.kind # "None") =>
       \A risk \in RiskLevels :
         \A found \in VerifyContract(program.contracts[1], None, FileName, None, risk) :
           SectionFindings(found, program.contracts[1], risk)

\* a file of risk critical whose contract has a body and a postcondition
\* and neither precondition nor effects: W003 and W005 are errors
C18_Witness ==
  /\ phase = "verified"
  /\ Len(program.contracts) = 1
  /\ HeaderRisk = "CRITICAL"
  /\ program.contracts[1].body.kind # "None"
  /\ program.contracts[1].precondition.kind = "None"
  /\ program.contracts[1].postcondition.kind # "None"
  /\ program.contracts[1].effects.kind = "None"
  /\ \E i, j \in 1..Len(results) :
       /\ results[i].code = "W003" /\ results[i].severity = "ERROR"
       /\ results[j].code = "W005" /\ results[j].severity = "ERROR"
  /\ WithCode(results, "W004") = {}

-----------------------------------------------------------------------------
(* C19: the findings for undeclared mutations                               *)

\* the findings of a run that are about the k-th contract of the file: the
\* contracts of a file stand on different lines
FindingsOf(k) ==
  {i \in 1..Len(results) : results[i].line = program.contracts[k].loc.line}

\* the path has a "."
Dotted(path) == \E i \in 1..Len(path) : path[i] = "."

\* the path starts with the declared path and a "."
Below(path, declared) ==
  /\ Len(path) > Len(declared)
  /\ \A i \in 1..Len(declared) : path[i] = declared[i]
  /\ path[Len(declared) + 1] = "."

\* the mutation is to be reported under these declared modifies paths
Undeclared(m, declared_modifies) ==
  /\ Dotted(m)
  /\ m \notin declared_modifies
  /\ ~\E d \in declared_modifies : Below(m, d)

\* the findings of C19 for one contract with a body
MutationFindings(k, contract, fp) ==
  LET declared == ExtractDeclaredTargets(contract.effects, "ModifiesEffect")
      touches == HasTouchesNothingElse(contract.effects)
      about == {i \in FindingsOf(k) : results[i].code \in {"E001", "E002"}}
  IN
  /\ \A m \in fp.mutations :
       Cardinality({i \in about : results[i].message = <<m>>})
         = (IF Undeclared(m, declared) THEN 1 ELSE 0)
  /\ \A i \in about :
       /\ \E m \in fp.mutations : results[i].message = <<m>>
       /\ results[i].code = (IF touches THEN "E002" ELSE "E001")
       /\ results[i].severity = (IF touches THEN "ERROR" ELSE "WARNING")

\* C19: a mutation path of the fingerprint of the body is reported, once,
\* iff it has a ".", is not a declared modifies path and starts with no
\* declared modifies path followed by "."; the finding is E002 with severity
\* ERROR when touches_nothing_else is declared and E001 with severity
\* WARNING otherwise, so a contract never has both codes, and a mutation
\* without a "." is never reported
C19_MutationFindings ==
  phase = "verified" =>
    \A k \in 1..Len(program.contracts) :
      program.contracts[k].body.kind # "None" =>
        MutationFindings(k, program.contracts[k],
                         FingerprintContract(program.contracts[k]))

\* under "modifies [a.b]" with touches_nothing_else the body assigns a.bc:
\* the run has reported E002 for a.bc as an error
C19_Witness ==
  /\ phase = "verified"
  /\ Len(program.contracts) = 1
  /\ program.contracts[1].body.kind # "None"
  /\ HasTouchesNothingElse(program.contracts[1].effects)
  /\ ExtractDeclaredTargets(program.contracts[1].effects, "ModifiesEffect")
       = {<<"a", ".", "b">>}
  /\ FingerprintContract(program.contracts[1]).mutations = {<<"a", ".", "b", "c">>}
  /\ \E i \in 1..Len(results) :
       /\ results[i].code = "E002"
       /\ results[i].severity = "ERROR"
       /\ results[i].message = <<<<"a", ".", "b", "c">>>>
  /\ WithCode(results, "E001") = {}

-----------------------------------------------------------------------------
(* C20: the findings for calls under touches_nothing_else                   *)

\* the part of a dotted name before its first "."
FirstComponent(name) ==
  LET dots == {i \in 1..Len(name) : name[i] = "."} IN
  IF dots = {} THEN name
  ELSE [i \in 1..((CHOOSE d \in dots : \A e \in dots : d <= e) - 1) |-> name[i]]

\* the capabilities the header of the file requires
HeaderCapabilities ==
  IF program.header.kind # "None" /\ program.header.requires.kind # "None"
  THEN {program.header.requires.capabilities[i] :
          i \in 1..Len(program.header.requires.capabilities)}
  ELSE {}

Capitals ==
  {"A","B","C","D","E","F","G","H","I","J","K","L","M",
   "N","O","P","Q","R","S","T","U","V","W","X","Y","Z"}

\* the first component of a callee that C20 lets pass
Whitelisted(root, contract, fp) ==
  \/ \E d \in ExtractDeclaredTargets(contract.effects, "ModifiesEffect")
            \cup ExtractDeclaredTargets(contract.effects, "ReadsEffect") :
       root = FirstComponent(d)
  \/ \E i \in 1..Len(contract.params) : root = contract.params[i].name
  \/ \E capability \in HeaderCapabilities : root = FirstComponent(capability)
  \/ root # <<>> /\ root[1] \in Capitals
  \/ ~Dotted(root) /\ root \in fp.mutations

\* the findings of C20 for one contract with a body
CallFindings(k, contract, fp) ==
  LET about == {i \in FindingsOf(k) : results[i].code = "E003"} IN
  /\ \A callee \in fp.calls :
       Cardinality({i \in about : results[i].message = <<callee>>})
         = (IF /\ HasTouchesNothingElse(contract.effects)
               /\ ~Whitelisted(FirstComponent(callee), contract, fp)
            THEN 1 ELSE 0)
  /\ \A i \in about : \E callee \in fp.calls : results[i].message = <<callee>>
  /\ ~HasTouchesNothingElse(contract.effects) => about = {}

\* C20: E003 is reported for a callee of the calls of the fingerprint iff
\* touches_nothing_else is declared and the first dotted component of the
\* callee is not the root of a declared modifies or reads path, not a
\* parameter name, not the root of a required capability of the header, no
\* name with a capital first letter and no assigned name without a ".";
\* without touches_nothing_else there is no E003
C20_CallFindings ==
  phase = "verified" =>
    \A k \in 1..Len(program.contracts) :
      program.contracts[k].body.kind # "None" =>
        CallFindings(k, program.contracts[k],
                     FingerprintContract(program.contracts[k]))

\* under touches_nothing_else with modifies [s] and reads [r.q] the body
\* calls h and g.h: the run has reported E003 for both
C20_Witness ==
  /\ phase = "verified"
  /\ Len(program.contracts) = 1
  /\ program.contracts[1].body.kind # "None"
  /\ HasTouchesNothingElse(program.contracts[1].effects)
  /\ ExtractDeclaredTargets(program.contracts[1].effects, "ReadsEffect")
       = {<<"r", ".", "q">>}
  /\ FingerprintContract(program.contracts[1]).calls = {<<"h">>, <<"g", ".", "h">>}
  /\ \E i, j \in 1..Len(results) :
       /\ results[i].code = "E003" /\ results[i].message = <<<<"h">>>>
       /\ results[j].code = "E003" /\ results[j].message = <<<<"g", ".", "h">>>>
  /\ Cardinality(WithCode(results, "E003")) = 2

-----------------------------------------------------------------------------
(* C21: the findings for precondition references                            *)

\* what the conditions of a precondition read, by the extraction rules of
\* the fingerprint: names, and dotted paths of field accesses
PreconditionReads(contract) ==
  IF contract.precondition.kind = "None" THEN {}
  ELSE LET RECURSIVE Reads(_)
           Reads(conditions) ==
             IF conditions = <<>> THEN {}
             ELSE WalkExpr(Head(conditions), <<>>, BehavioralFingerprint).reads
                    \cup Reads(Tail(conditions))
       IN Reads(contract.precondition.conditions)

\* the reference has nothing to do with the parameters or the body
Unrelated(read, contract, fp) ==
  LET root == FirstComponent(read) IN
  /\ \A i \in 1..Len(contract.params) : root # contract.params[i].name
  /\ \A r \in fp.reads : root # FirstComponent(r)
  /\ \A m \in fp.mutations : root # FirstComponent(m)
  /\ ~(root # <<>> /\ root[1] \in Capitals)

\* the findings of C21 for one contract with a body
PreconditionFindings(k, contract, fp) ==
  LET about == {i \in FindingsOf(k) : results[i].code = "W006"} IN
  /\ \A read \in PreconditionReads(contract) :
       Cardinality({i \in about : results[i].message = <<read>>})
         = (IF Unrelated(read, contract, fp) THEN 1 ELSE 0)
  /\ \A i \in about :
       \E read \in PreconditionReads(contract) : results[i].message = <<read>>

\* C21: W006 is reported once for each name or dotted path a precondition
\* expression reads whose root is no parameter name, not the root of a read
\* or of a mutation of the body and has no capital first letter, and for no
\* other reference of the precondition
C21_PreconditionFindings ==
  phase = "verified" =>
    \A k \in 1..Len(program.contracts) :
      program.contracts[k].body.kind # "None" =>
        PreconditionFindings(k, program.contracts[k],
                             FingerprintContract(program.contracts[k]))

\* the precondition has the conditions "u > 0" and "u < 9" and the body
\* returns a: the run has reported W006 for u once
C21_Witness ==
  /\ phase = "verified"
  /\ Len(program.contracts) = 1
  /\ program.contracts[1].body.kind # "None"
  /\ program.contracts[1].precondition.kind # "None"
  /\ Len(program.contracts[1].precondition.conditions) = 2
  /\ PreconditionReads(program.contracts[1]) = {<<"u">>}
  /\ FingerprintContract(program.contracts[1]).reads = {<<"a">>}
  /\ Cardinality(WithCode(results, "W006")) = 1
  /\ \E i \in 1..Len(results) :
       /\ results[i].code = "W006"
       /\ results[i].severity = "WARNING"
       /\ results[i].message = <<<<"u">>>>

-----------------------------------------------------------------------------
(* C22: the findings for old(...) in the postcondition                      *)

\* the paths of the old(...) references of the postcondition
PostconditionOldReferences(contract) ==
  IF contract.postcondition.kind = "None" THEN {}
  ELSE {ExtractDottedPathFromExpr(e.inner) :
          e \in {n \in UNION {ExprNodes(contract.postcondition.conditions[i]) :
                                i \in 1..Len(contract.postcondition.conditions)} :
                   n.kind = "OldExpr"}}

\* a mutation is the path, lies below it or above it
Modified(p, mutations) ==
  \E m \in mutations : m = p \/ Below(m, p) \/ Below(p, m)

\* the findings of C22 for one contract with a body
OldReferenceFindings(k, contract, fp) ==
  LET about == {i \in FindingsOf(k) : results[i].code = "W007"} IN
  /\ \A p \in PostconditionOldReferences(contract) :
       Cardinality({i \in about : results[i].message = <<p>>})
         = (IF Modified(p, fp.mutations) THEN 0 ELSE 1)
  /\ \A i \in about :
       /\ \E p \in PostconditionOldReferences(contract) : results[i].message = <<p>>
       /\ results[i].severity = "WARNING"

\* C22: W007 is reported for an old(p) of the postcondition iff no mutation
\* of the body is p, starts with p and a "." or is a start of p followed by
\* a "."; a p without a "." that the body does not assign is reported
C22_OldReferenceFindings ==
  phase = "verified" =>
    \A k \in 1..Len(program.contracts) :
      program.contracts[k].body.kind # "None" =>
        OldReferenceFindings(k, program.contracts[k],
                             FingerprintContract(program.contracts[k]))

\* the postcondition is "old(c.d) == old(x)", the body assigns c.d.e: the
\* run has reported W007 for x and not for c.d
C22_Witness ==
  /\ phase = "verified"
  /\ Len(program.contracts) = 1
  /\ program.contracts[1].body.kind # "None"
  /\ PostconditionOldReferences(program.contracts[1]) = {<<"c", ".", "d">>, <<"x">>}
  /\ FingerprintContract(program.contracts[1]).mutations = {<<"c", ".", "d", ".", "e">>}
  /\ Cardinality(WithCode(results, "W007")) = 1
  /\ \E i \in 1..Len(results) :
       results[i].code = "W007" /\ results[i].message = <<<<"x">>>>

-----------------------------------------------------------------------------
(* C23: the findings for capability checks                                  *)

\* the capability paths of the checks "s has c" of the body and on_failure
CheckedCapabilities(contract) ==
  {ExtractDottedPathFromExpr(e.capability) :
     e \in {n \in ContractNodes(contract) :
              /\ n.kind = "HasExpr"
              /\ n.subject.kind # "None"
              /\ n.capability.kind # "None"}}

\* the capability is within what the header requires or is of a parameter
InScope(capability, contract) ==
  \/ \E required \in HeaderCapabilities :
       FirstComponent(capability) = FirstComponent(required)
  \/ \E i \in 1..Len(contract.params) :
       FirstComponent(capability) = contract.params[i].name

\* the findings of C23 for one contract with a body
CapabilityFindings(k, contract) ==
  LET about == {i \in FindingsOf(k) : results[i].code = "W008"} IN
  /\ \A capability \in CheckedCapabilities(contract) :
       (\E i \in about : results[i].message[1] = capability)
         <=> ~InScope(capability, contract)
  /\ \A i \in about : results[i].severity = "WARNING"

\* C23: W008 is reported, as a warning, for every capability check of the
\* body whose capability root is neither the root of a required capability
\* of the header nor a parameter name, whatever the header requires, also
\* when it requires nothing
C23_CapabilityFindings ==
  phase = "verified" =>
    \A k \in 1..Len(program.contracts) :
      program.contracts[k].body.kind # "None" =>
        CapabilityFindings(k, program.contracts[k])

-----------------------------------------------------------------------------
(* C24: where errors come from                                              *)

\* the events the effects of a contract declare
DeclaredEvents(contract) == ExtractDeclaredEmits(contract.effects)

\* one of the three grounds of C24 for an error holds of the contract
ErrorGround(contract, fp, risk) ==
  \/ contract.body.kind = "None"
  \/ /\ risk \in {"HIGH", "CRITICAL"}
     /\ \/ contract.precondition.kind = "None"
        \/ contract.postcondition.kind = "None"
        \/ contract.effects.kind = "None"
  \/ /\ HasTouchesNothingElse(contract.effects)
     /\ \/ \E m \in fp.mutations :
             Undeclared(m, ExtractDeclaredTargets(contract.effects, "ModifiesEffect"))
        \/ \E event \in fp.emitted_events : event \notin DeclaredEvents(contract)
        \/ \E callee \in fp.calls : ~Whitelisted(FirstComponent(callee), contract, fp)

\* C24: a finding of severity ERROR or CRITICAL is reported for a contract
\* only if its body is absent, or the risk level is HIGH or CRITICAL and its
\* precondition, postcondition or effects are absent, or
\* touches_nothing_else is declared and the body has an uncovered dotted
\* mutation, an undeclared emitted event or a call that is not whitelisted;
\* a contract of which none holds has no such finding
C24_ErrorsHaveGrounds ==
  phase = "verified" =>
    \A k \in 1..Len(program.contracts) :
      (\E i \in FindingsOf(k) : results[i].severity \in {"ERROR", "CRITICAL"})
        => ErrorGround(program.contracts[k],
                       FingerprintContract(program.contracts[k]), HeaderRisk)

\* a file of risk high whose contract has every section, declares
\* touches_nothing_else, assigns below a declared path, emits a declared
\* event and calls a method of its parameter: the run has reported a
\* warning and no error
C24_Witness ==
  /\ phase = "verified"
  /\ Len(program.contracts) = 1
  /\ HeaderRisk = "HIGH"
  /\ program.contracts[1].body.kind # "None"
  /\ HasTouchesNothingElse(program.contracts[1].effects)
  /\ FingerprintContract(program.contracts[1]).mutations = {<<"s", ".", "t">>}
  /\ FingerprintContract(program.contracts[1]).emitted_events = {<<"X">>}
  /\ <<"a", ".", "g">> \in FingerprintContract(program.contracts[1]).calls
  /\ ~ErrorGround(program.contracts[1], FingerprintContract(program.contracts[1]),
                  HeaderRisk)
  /\ results # <<>>
  /\ \A i \in 1..Len(results) : results[i].severity = "WARNING"

-----------------------------------------------------------------------------
(* C25: the name of a method call                                           *)

\* the expression is a name or a chain of field accesses on a name
RECURSIVE RootedInName(_)
RootedInName(expr) ==
  \/ expr.kind = "Identifier"
  \/ expr.kind = "FieldAccess" /\ expr.object.kind # "None" /\ RootedInName(expr.object)

\* the names of a chain of field accesses on a name, joined by "."
RECURSIVE ObjectPath(_)
ObjectPath(expr) ==
  IF expr.kind = "Identifier" THEN expr.name
  ELSE ObjectPath(expr.object) \o <<".">> \o expr.field_name

\* the name C25 gives a method call
MethodCallName(call) ==
  IF call.object.kind # "None" /\ RootedInName(call.object)
  THEN ObjectPath(call.object) \o <<".">> \o call.method
  ELSE call.method

\* C25: for a method call on a name or on a chain of field accesses on a
\* name, calls has "<object path>.<method>"; for a method call on an object
\* without a name, such as the result of a call, calls has the bare method
\* name
C25_MethodCallNames ==
  phase \in {"hashed", "compared"} =>
    \A k \in 1..Len(program.contracts) :
      \A call \in {n \in ContractNodes(program.contracts[k]) : n.kind = "MethodCall"} :
        MethodCallName(call) \in fingerprints[k].calls


-----------------------------------------------------------------------------
(* C26: max_nesting_depth and I002                                           *)

\* the largest number of if, for and while statements around a statement
\* list of these statements, the list itself counting none
RECURSIVE NestingDepth(_)
NestingDepth(stmts) ==
  LET Blocks(stmt) ==
        CASE stmt.kind = "IfStmt" -> {stmt.then_body, stmt.else_body} \ {<<>>}
          [] stmt.kind \in {"ForStmt", "WhileStmt"} -> {stmt.loop_body}
          [] OTHER -> {}
      Depths ==
        {0} \cup {1 + NestingDepth(block) :
                    block \in UNION {Blocks(stmts[i]) : i \in 1..Len(stmts)}}
  IN
  CHOOSE m \in Depths : \A n \in Depths : n <= m

\* the deeper of the body and the on_failure of a contract
ContractDepth(contract) ==
  LET body == NestingDepth(contract.body.statements)
      on_failure ==
        IF contract.on_failure.kind = "None" THEN 0
        ELSE NestingDepth(contract.on_failure.statements)
  IN
  IF body >= on_failure THEN body ELSE on_failure

\* C26: for a contract with a body, max_nesting_depth is the largest number
\* of if, for and while statements around any statement list of its body or
\* on_failure, and the checker reports I002 for it once, with severity INFO,
\* if that number is 4 or more, and not at all otherwise
C26_NestingDepth ==
  phase = "verified" =>
    \A k \in 1..Len(program.contracts) :
      program.contracts[k].body.kind # "None" =>
        /\ FingerprintContract(program.contracts[k]).max_nesting_depth
             = ContractDepth(program.contracts[k])
        /\ Cardinality({i \in FindingsOf(k) : results[i].code = "I002"})
             = (IF ContractDepth(program.contracts[k]) >= 4 THEN 1 ELSE 0)
        /\ \A i \in FindingsOf(k) :
             results[i].code = "I002" => results[i].severity = "INFO"

\* a body whose fourth level is reached through else branches, with its I002
C26_Witness ==
  /\ phase = "verified"
  /\ \E k \in 1..Len(program.contracts) :
       /\ program.contracts[k].body.kind # "None"
       /\ ContractDepth(program.contracts[k]) = 4
       /\ \E i \in 1..Len(program.contracts[k].body.statements) :
            /\ program.contracts[k].body.statements[i].kind = "IfStmt"
            /\ NestingDepth(program.contracts[k].body.statements[i].then_body) = 0
            /\ NestingDepth(program.contracts[k].body.statements[i].else_body) = 3
       /\ \E i \in FindingsOf(k) : results[i].code = "I002"


-----------------------------------------------------------------------------
(* C27: the parser never goes back and every loop pass consumes a token      *)

\* the methods of the parser
ParseMethods ==
  {"_parse_dotted_name", "_parse_permission_expr", "_parse_type_expr", "_parse_param",
   "_parse_param_list", "_parse_or_expr", "_parse_expression", "_parse_and_expr",
   "_parse_not_expr", "_parse_comparison", "_parse_has_expr", "_parse_additive",
   "_parse_multiplicative", "_parse_unary", "_parse_postfix", "_parse_primary",
   "_parse_list_literal", "_parse_argument_list", "_parse_statement_block",
   "_parse_return_stmt", "_parse_emit_stmt", "_parse_if_stmt", "_parse_for_stmt",
   "_parse_while_stmt", "_parse_statement", "_parse_expression_list_block",
   "_parse_precondition", "_parse_postcondition", "_parse_effects",
   "_parse_permissions", "_parse_body", "_parse_on_failure", "_parse_contract_def",
   "_parse_intent_block", "_parse_scope_decl", "_parse_risk_decl",
   "_parse_requires_decl", "_parse_file_header", "_parse_field_def",
   "_parse_flow_constraint", "_parse_type_def", "_parse_shared_decl"}

\* the methods that may return without a token consumed: an empty list or
\* block, an absent header, a permission text that ends where it starts
MayConsumeNothing ==
  {"_parse_permission_expr", "_parse_param_list", "_parse_argument_list",
   "_parse_statement_block", "_parse_expression_list_block", "_parse_file_header"}

\* called at any index of the token list, a method ends at or after that
\* index, and after it when it returns and is not one that may consume
\* nothing
MethodsAdvance ==
  \A p \in 0..(Len(tokens) - 1) :
    \A method \in ParseMethods :
      \E r \in {Self(method, p)} :
        /\ r.pos >= p
        /\ method \notin MayConsumeNothing /\ ~Failed(r) => r.pos > p

\* C27: the token index of Parser.parse never decreases; a pass of its loop
\* consumes a token or raises; and each parse method, which makes one pass of
\* the loop that calls it, ends at or after the index it was called at, and
\* after it unless it raises or stands for a list that may be empty
C27_IndexAdvances ==
  [][/\ ppos' >= ppos
     /\ phase = "items" /\ ~AtEndTok(ppos) => ppos' > ppos \/ phase' = "parse_failed"
     /\ phase = "lexed" => MethodsAdvance]_vars

\* a file is parsed whose lists have several items behind commas, one of
\* them a permission with parentheses, and whose escalation text has words
C27_Witness ==
  /\ phase = "parsed"
  /\ ppos = Len(tokens) - 1
  /\ \E k \in 1..Len(program.contracts) :
       /\ program.contracts[k].permissions.kind # "None"
       /\ Len(program.contracts[k].permissions.grants.permissions) = 2
       /\ program.contracts[k].permissions.escalation.policy # <<>>
       /\ program.contracts[k].effects.kind # "None"
       /\ Len(program.contracts[k].effects.declarations[1].targets) = 2


-----------------------------------------------------------------------------
(* C28: the rules of the checker are independent                             *)

\* the findings of a list at these places whose code is not one of these,
\* each with the number of times it occurs
Kept(found, places, codes) ==
  LET kept == {i \in places : found[i].code \notin codes} IN
  [x \in {found[i] : i \in kept} |-> Cardinality({i \in kept : found[i] = x})]

\* the codes of a list at these places, each with the number of times it
\* occurs
CodeCounts(found, places) ==
  [c \in {found[i].code : i \in places} |->
     Cardinality({i \in places : found[i].code = c})]

\* the capabilities of the header as verify_program passes them on
DeclaredCapabilities ==
  IF program.header.kind # "None" /\ program.header.requires.kind # "None"
  THEN [kind |-> "list", items |-> program.header.requires.capabilities] ELSE None

\* the findings of the run for contract k agree, outside these codes, with
\* those of verify_contract on another contract, capabilities and risk level
AgreesOutside(k, codes, contract, capabilities, risk) ==
  \E found \in {CHOOSE f \in VerifyContract(contract, None, FileName, capabilities, risk) :
                  TRUE} :
    Kept(results, FindingsOf(k), codes) = Kept(found, DOMAIN found, codes)

\* the same, and each code is found as many times as there
SameCounts(k, contract, capabilities, risk) ==
  \E found \in {CHOOSE f \in VerifyContract(contract, None, FileName, capabilities, risk) :
                  TRUE} :
    CodeCounts(results, FindingsOf(k)) = CodeCounts(found, DOMAIN found)

\* C28: for a contract with a body, the findings of each rule are those of
\* the rule's own inputs: without the precondition only W003 and W006 change,
\* without the postcondition only W004 and W007, without the effects only
\* W005 and the findings of the effects rules, without capabilities only
\* E003 and W008, and under another risk level only the severity of W003,
\* W004 and W005; no finding of another rule appears, disappears or changes
C28_RulesIndependent ==
  phase = "verified" =>
    \A k \in 1..Len(program.contracts) :
      \E contract \in {program.contracts[k]} :
        contract.body.kind # "None" =>
          /\ AgreesOutside(k, {}, contract, DeclaredCapabilities, HeaderRisk)
          /\ AgreesOutside(k, {"W003", "W006"}, [contract EXCEPT !.precondition = None],
                           DeclaredCapabilities, HeaderRisk)
          /\ AgreesOutside(k, {"W004", "W007"}, [contract EXCEPT !.postcondition = None],
                           DeclaredCapabilities, HeaderRisk)
          /\ AgreesOutside(k, {"W005", "E001", "E002", "W001", "E005", "W002", "E003"},
                           [contract EXCEPT !.effects = None],
                           DeclaredCapabilities, HeaderRisk)
          /\ AgreesOutside(k, {"E003", "W008"}, contract, None, HeaderRisk)
          /\ \A risk \in RiskLevels :
               /\ AgreesOutside(k, {"W003", "W004", "W005"}, contract,
                                DeclaredCapabilities, risk)
               /\ SameCounts(k, contract, DeclaredCapabilities, risk)

\* a contract whose first finding is an ERROR and that has findings of six
\* rules or more after it
C28_Witness ==
  /\ phase = "verified"
  /\ \E k \in 1..Len(program.contracts) :
       /\ program.contracts[k].body.kind # "None"
       /\ \E i \in FindingsOf(k) :
            /\ results[i].severity = "ERROR"
            /\ Cardinality({results[j].code : j \in {n \in FindingsOf(k) : n > i}}) >= 6


-----------------------------------------------------------------------------
(* C29: the indent stack                                                     *)

\* the stack is strictly increasing, of even numbers, with 0 at the bottom,
\* and has one entry above the bottom for each INDENT not yet closed by a
\* DEDENT
IndentStackShape ==
  /\ Len(indent_stack) >= 1
  /\ indent_stack[1] = 0
  /\ \A i \in 1..Len(indent_stack) : indent_stack[i] % INDENT_WIDTH = 0
  /\ \A i \in 1..(Len(indent_stack) - 1) : indent_stack[i] < indent_stack[i + 1]
  /\ Len(indent_stack) - 1
       = CountType(tokens, "INDENT", Len(tokens)) - CountType(tokens, "DEDENT", Len(tokens))

\* a scan of a content line indented beyond the top of the stack pushes its
\* indent, whatever the width of the step, and emits one INDENT before the
\* tokens of the line; the stack never grows by more than one entry
OneIndentPerIncrease ==
  /\ Len(indent_stack') <= Len(indent_stack) + 1
  /\ (/\ AboutToScanLine
      /\ ContentLineAt(pos)
      /\ source[FirstNonSpace(pos) + 1] # "\t"
      /\ LeadingSpaces(pos) % INDENT_WIDTH = 0
      /\ LeadingSpaces(pos) > Top(indent_stack)) =>
        /\ indent_stack' = Append(indent_stack, LeadingSpaces(pos))
        /\ Len(Added) >= 1
        /\ \A j \in 1..Len(Added) : (Added[j].type = "INDENT") <=> (j = 1)
        /\ \A j \in 1..Len(Added) : Added[j].type # "DEDENT"

\* C29: after every scan of a line and after the closing pops of tokenize,
\* raised errors included, the indent stack is a strictly increasing sequence
\* of even numbers with 0 at the bottom, one entry longer than the INDENTs
\* less the DEDENTs emitted so far; an increase of indentation of any width
\* pushes one entry and emits one INDENT
C29_IndentStack == [](IndentStackShape) /\ [][OneIndentPerIncrease]_vars

\* a line indented four spaces below a line at the margin has been scanned:
\* one entry, 4, on the stack and one INDENT
C29_Witness ==
  /\ phase = "tokenize"
  /\ indent_stack = <<0, 4>>
  /\ CountType(tokens, "INDENT", Len(tokens)) = 1
  /\ \E i \in 1..Len(tokens) : tokens[i].type = "INDENT" /\ i > 1


-----------------------------------------------------------------------------
(* C30: what a comparison of two computed hashes can say                     *)

\* C30: in a comparison of two hashes that compute_intent_hash made, the
\* combined hashes match iff neither the intent nor the behaviour changed;
\* the comparison is never both a drift and consistent; and when the intent
\* texts differ and the fingerprint hashes do not, it is neither
C30_CombinedMatch ==
  phase = "compared" =>
    /\ comparison.combined_match
         <=> (~comparison.intent_changed /\ ~comparison.behavior_changed)
    /\ ~(IsDrift(comparison) /\ IsConsistent(comparison))
    /\ (/\ comparison.new_hash.intent_text # comparison.old_hash.intent_text
        /\ comparison.new_hash.fingerprint_hash = comparison.old_hash.fingerprint_hash) =>
         /\ comparison.intent_changed
         /\ ~comparison.behavior_changed
         /\ ~comparison.combined_match
         /\ ~IsDrift(comparison)
         /\ ~IsConsistent(comparison)

\* the hash of a contract compared with the hash of the same contract under
\* another intent text: neither a drift nor consistent
C30_Witness ==
  /\ phase = "compared"
  /\ comparison.new_hash.intent_text # comparison.old_hash.intent_text
  /\ comparison.new_hash.fingerprint_hash = comparison.old_hash.fingerprint_hash
  /\ comparison.new_hash.contract_name = comparison.old_hash.contract_name
  /\ comparison.intent_changed
  /\ ~IsDrift(comparison)
  /\ ~IsConsistent(comparison)

====
